---- MODULE Spec2Model ----
(***************************************************************************)
(* A model of the Spud SDK's governance pipeline:                          *)
(*   - SpudClient    (core/client.ts)   the credential lifecycle           *)
(*   - AgentContext  (agent/context.ts) mode, failure policy               *)
(*   - SpudAgent     (agent/wrapper.ts) intercept()                        *)
(*   - SpudProxy     (agent/wrapper.ts) the JSON-RPC proxy handler         *)
(*   - SpudValidator (server/validate.ts) JWT validation against a JWKS    *)
(*                                                                         *)
(* Three specifications:                                                   *)
(*   Spec           client + agent + proxy, interleaved at every await     *)
(*   SpecPolicy     failureModeFor() as a pure function of its inputs      *)
(*   SpecValidator  concurrent validateToken() calls against a rotating    *)
(*                  key set, with a clock                                  *)
(*                                                                         *)
(* Conventions.  An optional value (T | undefined) is a set with at most   *)
(* one element.  A tool name or a pattern is a tuple of one-character      *)
(* strings, so that endsWith/startsWith/slice are computed.  A JSON value  *)
(* is a record tagged by t.                                                *)
(***************************************************************************)
EXTENDS Integers, Sequences, FiniteSets, TLC

\* ------------------------------------------------------------------ bounds

\* Token exchanges (connect() calls and refreshes) one behaviour may start.
MaxExchanges == 2

\* Token exchanges one behaviour of SpecClient may start.
MaxSessionExchanges == 3

\* Token exchanges a behaviour of SpecEnrich may start.
MaxEnrichExchanges == 1

\* Parts in one model stream given to wrapStream.
MaxParts == 4

\* Tool calls in one model result given to wrapGenerate.
MaxToolCalls == 2

\* Enrichment hooks registered in SpecContext and SpecEnrich.
MaxHooks == 2

\* Longest pattern / tool name drawn over Alphabet in SpecPolicy.
MaxPatLen == 2

\* Clock ticks (of half the key-set TTL) one behaviour of SpecValidator may take.
MaxTicks == 2

\* ------------------------------------------------------- program constants

MAX_REASONABLE_TOKEN_LIFETIME_SEC == 604800

\* ---------------------------------------------------------------- optional

None == {}

Some(v) == {v}

\* A function with no argument
EmptyMap == [k \in {} |-> 0]

\* The value of an optional that is present
Val(x) == CHOOSE v \in x : TRUE

\* x ?? d
OrElse(x, d) == IF x = {} THEN d ELSE CHOOSE v \in x : TRUE

\* {}
EmptyObject == [k \in {} |-> 0]

\* Object.assign(target, source)
ObjectAssign_keepsFirst(target, source) ==
    [k \in DOMAIN target \cup DOMAIN source |->
        IF k \in DOMAIN target THEN target[k] ELSE source[k]]

ObjectAssign(target, source) ==
    [k \in DOMAIN target \cup DOMAIN source |->
        IF k \in DOMAIN source THEN source[k] ELSE target[k]]

\* ------------------------------------------------------------------ strings

\* String.prototype.endsWith, for a one-character suffix
endsWith(s, c) == Len(s) >= 1 /\ s[Len(s)] = c

\* String.prototype.slice(0, -1)
sliceDropLast(s) == IF Len(s) = 0 THEN << >> ELSE SubSeq(s, 1, Len(s) - 1)

\* String.prototype.startsWith
startsWith(s, prefix) ==
    /\ Len(prefix) <= Len(s)
    /\ \A i \in 1..Len(prefix) : s[i] = prefix[i]

\* ------------------------------------------------------------ AgentContext

\* The constructor: config.mode ?? "enforcing"
ContextMode(config) == OrElse(config.mode, "enforcing")

\* The constructor: the failure policy with its defaults filled in
ContextPolicy(config) ==
    LET fp == OrElse(config.failurePolicy,
                     [failOpen |-> None, failClosed |-> None, default |-> None])
    IN  [failOpen   |-> OrElse(fp.failOpen, << >>),
         failClosed |-> OrElse(fp.failClosed, << >>),
         default    |-> OrElse(fp.default, "closed")]

matchPattern(pattern, name) ==
    IF endsWith(pattern, "*")
    THEN startsWith(name, sliceDropLast(pattern))
    ELSE pattern = name

matchesAny(patterns, name) ==
    \E i \in 1..Len(patterns) : matchPattern(patterns[i], name)

failureModeFor_closedFirst(policy, toolName) ==
    IF matchesAny(policy.failClosed, toolName) THEN "closed"
    ELSE IF matchesAny(policy.failOpen, toolName) THEN "open"
    ELSE policy.default

failureModeFor(policy, toolName) ==
    IF matchesAny(policy.failOpen, toolName) THEN "open"
    ELSE IF matchesAny(policy.failClosed, toolName) THEN "closed"
    ELSE policy.default

\* --------------------------------------------------------------- variables

VARIABLES
    \* AgentContext
    mode,            \* ctx.mode
    failurePolicy,   \* ctx.failurePolicy
    \* SpudClient
    now,             \* Math.floor(Date.now() / 1000)
    jwt,             \* this.jwt: None (null) or Some(token)
    jwtExpiresAt,    \* this.jwtExpiresAt
    destroyed,       \* this.destroyed
    refreshTimer,    \* this.refreshTimer: None or Some(handle)
    heartbeatTimer,  \* this.heartbeatTimer: None or Some(handle)
    timers,          \* the runtime's live timers: records [id, kind]
    nextTimer,       \* the next timer handle the runtime hands out
    exchanges,       \* token exchanges in flight: records [id, origin, live]
                     \* (live: the client was not destroyed at its start)
    nExchanges,      \* token exchanges started so far
    \* one intercept() / proxy.handler() call and what it did
    op,
    \* failureModeFor() applied to drawn inputs (SpecPolicy)
    polConfig,       \* the AgentConfig drawn
    polName,         \* the tool name drawn
    polResult,       \* None, or Some(failureModeFor(name))
    \* SpudValidator (SpecValidator)
    serverKeys,      \* the key set the platform publishes now
    ticks,           \* clock ticks so far
    jwksCache,       \* this.jwksCache: None (null) or Some(key set)
    jwksCachedAt,    \* this.jwksCachedAt (ms)
    jwksFetchedAt,   \* Date.now() at the fetch that filled this.jwksCache (ms)
    cryptoKeyCache,  \* this.cryptoKeyCache: kid -> imported key
    vcall,           \* per caller: its validateToken() call
    \* SpudClient used directly (SpecClient)
    req,             \* one client.request() call and what it did
    heartbeats,      \* heartbeat requests in flight: records [bearer]
    settled,         \* None, or what the token exchange settled last came to
    \* AgentContext.buildContext() (SpecContext)
    build,           \* one buildContext() call: its hooks and its result
    \* the hosts' sides (SpecMiddleware, SpecAdapter, SpecStream)
    mw,              \* one request through validator.middleware()
    wrap,            \* one call of a tool wrapped by an adapter
    stream           \* one stream through spudMiddleware.wrapStream

clientVars == <<now, jwt, jwtExpiresAt, destroyed, refreshTimer, heartbeatTimer,
                timers, nextTimer, exchanges, nExchanges>>

agentVars == <<mode, failurePolicy>>

policyVars == <<polConfig, polName, polResult>>

validatorVars == <<serverKeys, ticks, jwksCache, jwksCachedAt, jwksFetchedAt,
                   cryptoKeyCache, vcall>>

sessionVars == <<req, heartbeats>>

contextVars == <<build>>

hostVars == <<mw, wrap, stream>>

\* ------------------------------------------------------------- JSON values

JUndefined == [t |-> "undefined"]

JNull == [t |-> "null"]

JNum(n) == [t |-> "num", v |-> n]

JStr(s) == [t |-> "str", v |-> s]

JArr(n) == [t |-> "arr", len |-> n]

\* f: a function from field names to JSON values
JObj(f) == [t |-> "obj", f |-> f]

JEmptyObj == JObj([k \in {} |-> JNull])

\* Property access v.field: a TypeError on null and undefined, undefined for
\* a missing field or a value that is no object.
GetThrows(v) == v.t \in {"null", "undefined"}

Get(v, field) ==
    IF v.t = "obj" /\ field \in DOMAIN v.f THEN v.f[field] ELSE JUndefined

\* JSON.stringify of an object, parsed back: fields whose value is undefined
\* are dropped.
DropUndefined(f) ==
    JObj([k \in {x \in DOMAIN f : f[x] # JUndefined} |-> f[k]])

\* ------------------------------------------------------------------ inputs

GetU == <<"g", "e", "t", "_", "u">>

Del == <<"d", "e", "l">>

Other == <<"x">>

ToolNames == {GetU, Del, Other}

GetStar == <<"g", "e", "t", "_", "*">>

Args1 == JObj([k \in {"to"} |-> JStr("a@b.com")])

\* The agent configurations a behaviour of Spec may start from.
Policies ==
    { None,
      Some([failOpen |-> Some(<<GetStar>>), failClosed |-> Some(<<GetStar, Del>>),
            default |-> Some("open")]) }

AgentConfigs ==
    [mode : {None, Some("permissive"), Some("dry-run")},
     failurePolicy : Policies]

\* The request bodies (raw text) the proxy may receive.
BodyNotJson == "{not json"

BodyNull == "null"

BodyArray == "[1]"

BodyScalar == "7"

BodyList == "{\"jsonrpc\":\"2.0\",\"id\":2,\"method\":\"tools/list\",\"params\":{}}"

BodyCallGet == "{\"jsonrpc\":\"2.0\",\"id\":1,\"method\":\"tools/call\",\"params\":{\"name\":\"get_u\",\"arguments\":{\"to\":\"a@b.com\"}}}"

BodyCallDel == "{ \"jsonrpc\": \"2.0\", \"id\": \"x\", \"method\": \"tools/call\", \"params\": { \"name\": \"del\" } }"

BodyCallOther == "{\"jsonrpc\":\"2.0\",\"method\":\"tools/call\",\"params\":{\"name\":\"x\",\"arguments\":{}}}"

BodyPromptGet == "{\"jsonrpc\":\"2.0\",\"id\":5,\"method\":\"prompts/get\",\"params\":{\"name\":\"x\"}}"

BodyCallNoParams == "{\"jsonrpc\":\"2.0\",\"id\":4,\"method\":\"tools/call\"}"

Bodies == {BodyNotJson, BodyNull, BodyArray, BodyScalar, BodyList, BodyCallGet,
           BodyCallDel, BodyCallOther, BodyPromptGet, BodyCallNoParams}

Envelope(id, method, params) ==
    DropUndefined([k \in {"jsonrpc", "id", "method", "params"} |->
        CASE k = "jsonrpc" -> JStr("2.0")
          [] k = "id"      -> id
          [] k = "method"  -> method
          [] k = "params"  -> params])

CallParams(name, arguments) ==
    DropUndefined([k \in {"name", "arguments"} |->
        IF k = "name" THEN JStr(name) ELSE arguments])

\* JSON.parse: [ok |-> FALSE] is a SyntaxError
JsonParse(text) ==
    CASE text = BodyNotJson -> [ok |-> FALSE, value |-> JUndefined]
      [] text = BodyNull    -> [ok |-> TRUE, value |-> JNull]
      [] text = BodyArray   -> [ok |-> TRUE, value |-> JArr(1)]
      [] text = BodyScalar  -> [ok |-> TRUE, value |-> JNum(7)]
      [] text = BodyList    ->
            [ok |-> TRUE, value |-> Envelope(JNum(2), JStr("tools/list"), JEmptyObj)]
      [] text = BodyCallGet ->
            [ok |-> TRUE,
             value |-> Envelope(JNum(1), JStr("tools/call"), CallParams(GetU, Args1))]
      [] text = BodyCallDel ->
            [ok |-> TRUE,
             value |-> Envelope(JStr("x"), JStr("tools/call"),
                                CallParams(Del, JUndefined))]
      [] text = BodyCallOther ->
            [ok |-> TRUE,
             value |-> Envelope(JUndefined, JStr("tools/call"),
                                CallParams(Other, JEmptyObj))]
      [] text = BodyPromptGet ->
            [ok |-> TRUE,
             value |-> Envelope(JNum(5), JStr("prompts/get"),
                                CallParams(Other, JUndefined))]
      [] text = BodyCallNoParams ->
            [ok |-> TRUE,
             value |-> Envelope(JNum(4), JStr("tools/call"), JUndefined)]

\* The inbound request's headers: the caller may itself supply X-Spud-Token.
ForgedToken == 0

InboundHeaders ==
    { [contentType |-> "application/json", spudToken |-> None],
      [contentType |-> "application/json", spudToken |-> Some(ForgedToken)] }

\* What the decision service may answer on success.
GovernResponses ==
    [permitted : BOOLEAN, reason : {None, Some("policy")}, decision_id : {"dec-1"}]

\* How an outbound call may fail: fetch rejects (network error), the timeout
\* aborts it, or the response is not ok.
FetchFailures == {"network", "timeout", "status"}

\* -------------------------------------------------------------- SpudClient

DEFAULT_HEARTBEAT_MS == 60000

DEFAULT_REFRESH_BEFORE_EXPIRY_MS == 300000

REFRESH_RETRY_MS == 30000

\* The wall clock (Unix seconds) at which a behaviour starts: late enough that
\* Date.now() exceeds every delay and TTL, early enough that the clock in
\* milliseconds stays a 32-bit integer.
Epoch == 2000000

Max(a, b) == IF a >= b THEN a ELSE b

\* How fetchWithTimeout() of the token endpoint may end: aborted by its
\* timeout, a response that is not ok, or a token with an expiry.
TokenReplies(id) ==
    {[aborted |-> TRUE, ok |-> FALSE, token |-> id, expires_at |-> 0],
     [aborted |-> FALSE, ok |-> FALSE, token |-> id, expires_at |-> 0]} \cup
    [aborted : {FALSE}, ok : {TRUE}, token : {id},
     expires_at : {now, now + 1,
                   now + MAX_REASONABLE_TOKEN_LIFETIME_SEC,
                   now + MAX_REASONABLE_TOKEN_LIFETIME_SEC + 1}]

fetchToken_acceptsExpiringNow(res, nowSec) ==
    IF res.aborted THEN "AbortError"
    ELSE IF ~res.ok THEN "AUTH_FAILED"
    ELSE IF res.expires_at < nowSec THEN "INVALID_TOKEN"
    ELSE IF res.expires_at > nowSec + MAX_REASONABLE_TOKEN_LIFETIME_SEC
         THEN "INVALID_TOKEN"
    ELSE "ok"

\* fetchToken(), from the response on: the error it throws, or "ok" when it
\* installs the credential.
fetchToken(res, nowSec) ==
    IF res.aborted THEN "AbortError"
    ELSE IF ~res.ok THEN "AUTH_FAILED"
    ELSE IF res.expires_at <= nowSec THEN "INVALID_TOKEN"
    ELSE IF res.expires_at > nowSec + MAX_REASONABLE_TOKEN_LIFETIME_SEC
         THEN "INVALID_TOKEN"
    ELSE "ok"

credentialAfter_storesExpiryFirst(res, nowSec) ==
    IF fetchToken(res, nowSec) = "ok"
    THEN [jwt |-> Some(res.token), jwtExpiresAt |-> res.expires_at]
    ELSE [jwt |-> jwt,
          jwtExpiresAt |-> IF res.ok THEN res.expires_at ELSE jwtExpiresAt]

\* fetchToken(), from the response on: the credential the client holds after it
credentialAfter(res, nowSec) ==
    IF fetchToken(res, nowSec) = "ok"
    THEN [jwt |-> Some(res.token), jwtExpiresAt |-> res.expires_at]
    ELSE [jwt |-> jwt, jwtExpiresAt |-> jwtExpiresAt]

refreshDelay_noClamp(expiresAt, nowSec) ==
    (expiresAt - nowSec) * 1000 - DEFAULT_REFRESH_BEFORE_EXPIRY_MS

\* scheduleRefresh(): the delay of the timer it arms
refreshDelay(expiresAt, nowSec) ==
    Max((expiresAt - nowSec) * 1000 - DEFAULT_REFRESH_BEFORE_EXPIRY_MS, 0)

\* connect(): fetchToken() issues the token exchange and suspends.  cap: how
\* many token exchanges a behaviour may start.
ConnectUpTo(cap) ==
    /\ nExchanges < cap
    /\ nExchanges' = nExchanges + 1
    /\ exchanges' = exchanges \cup {[id |-> nExchanges + 1, origin |-> "connect",
                                      live |-> ~destroyed]}
    /\ UNCHANGED <<now, jwt, jwtExpiresAt, destroyed, refreshTimer, heartbeatTimer,
                   timers, nextTimer>>
    /\ UNCHANGED <<agentVars, op, policyVars, validatorVars, sessionVars, settled, contextVars, hostVars>>

Connect == ConnectUpTo(MaxExchanges)

\* connect(), on a client used directly
SessionConnect == ConnectUpTo(MaxSessionExchanges)

\* The token exchange e answers (or fails): fetchToken() resumes, and with it
\* its caller, connect() or the refresh callback, up to the next suspension.
ExchangeReply(e, res) ==
    LET outcome == fetchToken(res, now)
        \* scheduleRefresh() returns at once on a destroyed client
        arms == outcome = "ok" /\ ~destroyed
        refresh == [id |-> nextTimer, kind |-> "refresh",
                    delay |-> refreshDelay(res.expires_at, now)]
        retry == [id |-> nextTimer, kind |-> "retry", delay |-> REFRESH_RETRY_MS]
        hbId == IF arms THEN nextTimer + 1 ELSE nextTimer
        heartbeat == [id |-> hbId, kind |-> "heartbeat",
                      delay |-> DEFAULT_HEARTBEAT_MS]
    IN  /\ exchanges' = exchanges \ {e}
        /\ jwt' = credentialAfter(res, now).jwt
        /\ jwtExpiresAt' = credentialAfter(res, now).jwtExpiresAt
        /\ CASE outcome = "ok" /\ e.origin = "connect" ->
                  \* scheduleRefresh(); startHeartbeat()
                  /\ refreshTimer' = IF arms THEN Some(refresh.id) ELSE refreshTimer
                  /\ heartbeatTimer' = Some(heartbeat.id)
                  /\ timers' = timers \cup (IF arms THEN {refresh} ELSE {})
                                      \cup {heartbeat}
                  /\ nextTimer' = hbId + 1
             [] outcome = "ok" /\ e.origin = "refresh" ->
                  \* scheduleRefresh()
                  /\ refreshTimer' = IF arms THEN Some(refresh.id) ELSE refreshTimer
                  /\ timers' = timers \cup (IF arms THEN {refresh} ELSE {})
                  /\ nextTimer' = IF arms THEN nextTimer + 1 ELSE nextTimer
                  /\ UNCHANGED heartbeatTimer
             [] outcome # "ok" /\ e.origin = "connect" ->
                  \* connect() rejects
                  UNCHANGED <<refreshTimer, heartbeatTimer, timers, nextTimer>>
             [] outcome # "ok" /\ e.origin = "refresh" ->
                  \* catch: retry in 30 s
                  /\ refreshTimer' = Some(retry.id)
                  /\ timers' = timers \cup {retry}
                  /\ nextTimer' = nextTimer + 1
                  /\ UNCHANGED heartbeatTimer
        /\ UNCHANGED <<now, destroyed, nExchanges>>
        /\ UNCHANGED <<agentVars, op, policyVars, validatorVars, sessionVars, contextVars, hostVars>>

TokenExchangeReply ==
    \E e \in exchanges : \E res \in TokenReplies(e.id) :
        /\ ExchangeReply(e, res)
        /\ UNCHANGED settled

\* The refresh timer t fires: its callback calls fetchToken(), which issues
\* the token exchange and suspends.
RefreshFireUpTo(cap) ==
    \E t \in timers :
        /\ t.kind = "refresh"
        /\ nExchanges < cap
        /\ timers' = timers \ {t}
        /\ nExchanges' = nExchanges + 1
        /\ exchanges' = exchanges \cup {[id |-> nExchanges + 1, origin |-> "refresh",
                                          live |-> ~destroyed]}
        /\ UNCHANGED <<now, jwt, jwtExpiresAt, destroyed, refreshTimer,
                       heartbeatTimer, nextTimer>>
        /\ UNCHANGED <<agentVars, op, policyVars, validatorVars, sessionVars, settled, contextVars, hostVars>>

RefreshFire == RefreshFireUpTo(MaxExchanges)

\* The refresh timer fires, on a client used directly
SessionRefreshFire == RefreshFireUpTo(MaxSessionExchanges)

RetryFire_givesUp ==
    \E t \in timers :
        /\ t.kind = "retry"
        /\ timers' = timers \ {t}
        /\ UNCHANGED <<refreshTimer, nextTimer>>
        /\ UNCHANGED <<now, jwt, jwtExpiresAt, destroyed, heartbeatTimer,
                       exchanges, nExchanges>>
        /\ UNCHANGED <<agentVars, op, policyVars, validatorVars, sessionVars, settled, contextVars, hostVars>>

\* The retry timer t fires: its callback calls scheduleRefresh().
RetryFire ==
    \E t \in timers :
        /\ t.kind = "retry"
        /\ IF destroyed
           THEN /\ timers' = timers \ {t}
                /\ UNCHANGED <<refreshTimer, nextTimer>>
           ELSE /\ timers' = (timers \ {t}) \cup
                        {[id |-> nextTimer, kind |-> "refresh",
                          delay |-> refreshDelay(jwtExpiresAt, now)]}
                /\ refreshTimer' = Some(nextTimer)
                /\ nextTimer' = nextTimer + 1
        /\ UNCHANGED <<now, jwt, jwtExpiresAt, destroyed, heartbeatTimer,
                       exchanges, nExchanges>>
        /\ UNCHANGED <<agentVars, op, policyVars, validatorVars, sessionVars, settled, contextVars, hostVars>>

\* clearTimeout / clearInterval of the handle a field holds
Cleared(handle) == {t \in timers : Some(t.id) # handle}

Destroy_keepsHeartbeat ==
    /\ destroyed' = TRUE
    /\ timers' = Cleared(refreshTimer)
    /\ refreshTimer' = None
    /\ heartbeatTimer' = None
    /\ jwt' = None
    /\ jwtExpiresAt' = 0
    /\ UNCHANGED <<now, nextTimer, exchanges, nExchanges>>
    /\ UNCHANGED <<agentVars, op, policyVars, validatorVars, sessionVars, settled, contextVars, hostVars>>

Destroy_keepsExpiry ==
    /\ destroyed' = TRUE
    /\ timers' = Cleared(refreshTimer) \cap Cleared(heartbeatTimer)
    /\ refreshTimer' = None
    /\ heartbeatTimer' = None
    /\ jwt' = None
    /\ UNCHANGED <<now, nextTimer, exchanges, nExchanges, jwtExpiresAt>>
    /\ UNCHANGED <<agentVars, op, policyVars, validatorVars, sessionVars, settled, contextVars, hostVars>>

\* destroy()
Destroy ==
    /\ destroyed' = TRUE
    /\ timers' = Cleared(refreshTimer) \cap Cleared(heartbeatTimer)
    /\ refreshTimer' = None
    /\ heartbeatTimer' = None
    /\ jwt' = None
    /\ jwtExpiresAt' = 0
    /\ UNCHANGED <<now, nextTimer, exchanges, nExchanges>>
    /\ UNCHANGED <<agentVars, op, policyVars, validatorVars, sessionVars, settled, contextVars, hostVars>>

requestGuard_checksJwtFirst ==
    IF jwt = None THEN "NOT_CONNECTED"
    ELSE IF destroyed THEN "CLIENT_DESTROYED"
    ELSE "send"

\* request(), up to its fetch: the error it throws, or "send"
requestGuard ==
    IF destroyed THEN "CLIENT_DESTROYED"
    ELSE IF jwt = None THEN "NOT_CONNECTED"
    ELSE "send"

\* get isConnected
isConnected == jwt # None /\ ~destroyed

\* get authToken
authToken == jwt

\* ------------------------------------- SpudClient: request() and heartbeat

\* One client.request() call.  held and wasDestroyed are this.jwt and
\* this.destroyed at the moment of the call.
IdleReq ==
    [pc |-> "idle", held |-> None, wasDestroyed |-> FALSE,
     sent |-> << >>, response |-> None, result |-> None]

\* The statuses the API may answer a request with
ApiStatuses == {200, 500}

\* Response.ok
resOk(status) == status >= 200 /\ status <= 299

\* request(), from its guards to its fetch: it throws, or sends the request
\* with the credential it holds as bearer token and suspends.
requestStart(r) ==
    IF requestGuard = "send"
    THEN [r EXCEPT !.pc = "sent",
                   !.sent = Append(@, [bearer |-> Val(jwt)])]
    ELSE [r EXCEPT !.pc = "done",
                   !.result = Some([kind |-> "SpudError", code |-> requestGuard,
                                    status |-> None])]

\* request(), from the response on
requestFinish(r, status) ==
    IF ~resOk(status)
    THEN [r EXCEPT !.pc = "done",
                   !.result = Some([kind |-> "SpudError", code |-> "API_ERROR",
                                    status |-> Some(status)])]
    ELSE [r EXCEPT !.pc = "done",
                   !.result = Some([kind |-> "value", code |-> "",
                                    status |-> None])]

\* client.request() is called.
RequestCall ==
    /\ req.pc = "idle"
    /\ req' = requestStart([IdleReq EXCEPT !.held = jwt,
                                           !.wasDestroyed = destroyed])
    /\ UNCHANGED <<heartbeats, settled>>
    /\ UNCHANGED <<agentVars, clientVars, op, policyVars, validatorVars,
                   contextVars, hostVars>>

\* The API answers the request.
RequestReply ==
    \E status \in ApiStatuses :
        /\ req.pc = "sent"
        /\ req' = requestFinish([req EXCEPT !.response = Some(status)], status)
        /\ UNCHANGED <<heartbeats, settled>>
        /\ UNCHANGED <<agentVars, clientVars, op, policyVars, validatorVars,
                       contextVars, hostVars>>

\* The request fails in transport: fetch rejects (the timeout's abort too).
RequestFail ==
    \E f \in {"network"} :
        /\ req.pc = "sent"
        /\ req' = [req EXCEPT !.pc = "done",
                      !.result = Some([kind |-> "raised", code |-> f,
                                       status |-> None])]
        /\ UNCHANGED <<heartbeats, settled>>
        /\ UNCHANGED <<agentVars, clientVars, op, policyVars, validatorVars,
                       contextVars, hostVars>>

\* The caller has its answer; its next request() may start.
RequestReturn ==
    /\ req.pc = "done"
    /\ req' = IdleReq
    /\ UNCHANGED <<heartbeats, settled>>
    /\ UNCHANGED <<agentVars, clientVars, op, policyVars, validatorVars,
                   contextVars, hostVars>>

\* startHeartbeat()'s interval callback: the heartbeat requests in flight
\* after it ran
heartbeatTick(inFlight) ==
    IF destroyed \/ jwt = None THEN inFlight
    ELSE inFlight \cup {[bearer |-> Val(jwt)]}

\* A heartbeat interval t comes round (it stays armed).
HeartbeatFire ==
    \E t \in timers :
        /\ t.kind = "heartbeat"
        /\ heartbeats' = heartbeatTick(heartbeats)
        /\ UNCHANGED <<req, settled>>
        /\ UNCHANGED <<agentVars, clientVars, op, policyVars, validatorVars,
                       contextVars, hostVars>>

\* A heartbeat request is answered or fails: either way it is ignored.
HeartbeatSettle ==
    \E h \in heartbeats :
        /\ heartbeats' = heartbeats \ {h}
        /\ UNCHANGED <<req, settled>>
        /\ UNCHANGED <<agentVars, clientVars, op, policyVars, validatorVars,
                       contextVars, hostVars>>

\* The token exchange e answers, and what it came to is kept: the reply, the
\* clock, and what connect() or the refresh callback saw of fetchToken() (the
\* error it threw, or "ok").
TokenExchangeSettle ==
    \E e \in exchanges : \E res \in TokenReplies(e.id) :
        /\ ExchangeReply(e, res)
        /\ settled' = Some([id |-> e.id, origin |-> e.origin, res |-> res,
                            at |-> now, outcome |-> fetchToken(res, now)])

\* --------------------------------------------------------------- SpudAgent

FailOpenReason == "Governance unavailable - fail-open applied"

FailClosedReason == "Governance unavailable - fail-closed applied"

\* intercept(), the catch branch: the decision request failed
InterceptFailure_alwaysClosed(policy, toolName) ==
    [proceed |-> FALSE,
     decision |-> [permitted |-> FALSE, reason |-> Some(FailClosedReason),
                   decision_id |-> ""]]

InterceptFailure(policy, toolName) ==
    LET failMode == failureModeFor(policy, toolName)
        allowed == failMode = "open"
    IN  [proceed |-> allowed,
         decision |-> [permitted |-> allowed,
                       reason |-> Some(IF allowed THEN FailOpenReason
                                       ELSE FailClosedReason),
                       decision_id |-> ""]]

\* intercept(), after the try: the decision request succeeded
InterceptSuccess_ignoresDeny(m, decision) ==
    [proceed |-> TRUE, decision |-> decision]

InterceptSuccess_enforcesPermissive(m, decision) ==
    IF m = "dry-run"
    THEN [proceed |-> TRUE, decision |-> decision]
    ELSE [proceed |-> decision.permitted, decision |-> decision]

InterceptSuccess(m, decision) ==
    IF m = "dry-run" \/ m = "permissive"
    THEN [proceed |-> TRUE, decision |-> decision]
    ELSE [proceed |-> decision.permitted, decision |-> decision]

governContext_spreadLast(entityContext, toolCall) ==
    ObjectAssign([k \in {"tool_name", "tool_arguments"} |->
                     IF k = "tool_name" THEN toolCall.name ELSE toolCall.arguments],
                 entityContext)

\* { ...entityContext, tool_name, tool_arguments }
governContext(entityContext, toolCall) ==
    ObjectAssign(entityContext,
                 [k \in {"tool_name", "tool_arguments"} |->
                     IF k = "tool_name" THEN toolCall.name ELSE toolCall.arguments])

\* The body of the decision request intercept() sends
GovernRequest(toolCall) ==
    [path |-> "/v1/govern",
     bearer |-> jwt,
     action |-> <<"tool:", toolCall.name>>,
     context |-> governContext(OrElse(build.merged, EmptyObject), toolCall),
     blocking |-> TRUE]

\* ---------------------------------------------------------------- SpudProxy

DeniedMessage == "Action denied by governance policy"

jsonRpcError_status403(id, message) ==
    [status |-> 403,
     contentType |-> "application/json",
     body |-> DropUndefined([k \in {"jsonrpc", "id", "error"} |->
         CASE k = "jsonrpc" -> JStr("2.0")
           [] k = "id"      -> id
           [] k = "error"   ->
                JObj([j \in {"code", "message"} |->
                    IF j = "code" THEN JNum(-32600) ELSE JStr(message)])])]

jsonRpcError(id, message) ==
    [status |-> 200,
     contentType |-> "application/json",
     body |-> DropUndefined([k \in {"jsonrpc", "id", "error"} |->
         CASE k = "jsonrpc" -> JStr("2.0")
           [] k = "id"      -> id
           [] k = "error"   ->
                JObj([j \in {"code", "message"} |->
                    IF j = "code" THEN JNum(-32600) ELSE JStr(message)])])]

\* The canonical serialisation of the bodies (JSON.stringify of their parse)
JsonStringifyParsed(text) ==
    IF text = BodyCallDel
    THEN "{\"jsonrpc\":\"2.0\",\"id\":\"x\",\"method\":\"tools/call\",\"params\":{\"name\":\"del\"}}"
    ELSE text

\* forward(): the request sent to the upstream
forward_reserialised(originalHeaders, body) ==
    [url |-> "upstream",
     method |-> "POST",
     headers |-> IF authToken # None
                 THEN [originalHeaders EXCEPT !.spudToken = authToken]
                 ELSE originalHeaders,
     body |-> JsonStringifyParsed(body)]

forward(originalHeaders, body) ==
    [url |-> "upstream",
     method |-> "POST",
     headers |-> IF authToken # None
                 THEN [originalHeaders EXCEPT !.spudToken = authToken]
                 ELSE originalHeaders,
     body |-> body]

\* handler(), up to its first suspension: what it does with the body read.
\* "forward", "intercept", or "TypeError" (a property read of null/undefined).
handlerRoute_byShape(text) ==
    LET p == JsonParse(text)
    IN  IF ~p.ok THEN "forward"
        ELSE IF GetThrows(p.value) THEN "TypeError"
        ELSE IF Get(Get(p.value, "params"), "name").t = "str" THEN "intercept"
        ELSE "forward"

handlerRoute(text) ==
    LET p == JsonParse(text)
    IN  IF ~p.ok THEN "forward"
        ELSE IF GetThrows(p.value) THEN "TypeError"
        ELSE IF Get(p.value, "method") # JStr("tools/call") THEN "forward"
        ELSE IF GetThrows(Get(p.value, "params")) THEN "TypeError"
        ELSE "intercept"

\* handler(): the ToolCall built from the envelope's params
handlerToolCall(text) ==
    LET params == Get(JsonParse(text).value, "params")
        arguments == Get(params, "arguments")
    IN  [name |-> Get(params, "name").v,
         arguments |-> IF arguments.t \in {"undefined", "null"}
                       THEN JEmptyObj ELSE arguments]

\* ------------------------------------------- one intercept()/handler() call

IdleOp ==
    [pc |-> "idle", via |-> "none", text |-> "", headers |-> None,
     toolCall |-> None, govReqs |-> << >>, govReply |-> None, result |-> None,
     backendReqs |-> << >>, backendReply |-> None, reply |-> None]

DirectToolCalls == [name : ToolNames, arguments : {Args1}]

\* intercept(toolCall) up to its first await
interceptStart(tc) ==
    [IdleOp EXCEPT !.pc = "ctx", !.via = "direct", !.toolCall = Some(tc)]

\* agent.intercept(toolCall) is called: buildContext() suspends it.
InterceptCall ==
    \E tc \in DirectToolCalls :
        /\ op.pc = "idle"
        /\ op' = interceptStart(tc)
        /\ UNCHANGED <<agentVars, clientVars, policyVars, validatorVars, sessionVars, settled, contextVars, hostVars>>

\* proxy.handler(request) is called: it reads and parses the body, then
\* forwards it, raises, or calls intercept().
HandlerCall ==
    \E text \in Bodies : \E headers \in InboundHeaders :
        /\ op.pc = "idle"
        /\ LET route == handlerRoute(text)
               o == [IdleOp EXCEPT !.via = "proxy", !.text = text,
                                   !.headers = Some(headers)]
           IN  op' = CASE route = "forward" ->
                            [o EXCEPT !.pc = "forward",
                                      !.backendReqs = <<forward(headers, text)>>]
                       [] route = "TypeError" ->
                            [o EXCEPT !.pc = "done",
                                      !.reply = Some([kind |-> "raised",
                                                      error |-> "TypeError"])]
                       [] route = "intercept" ->
                            [o EXCEPT !.pc = "ctx",
                                      !.toolCall = Some(handlerToolCall(text))]
        /\ UNCHANGED <<agentVars, clientVars, policyVars, validatorVars, sessionVars, settled, contextVars, hostVars>>

\* intercept() has its result: it returns to its caller, which for the proxy
\* is handler(), running on to its reply or to the forward's suspension.
AfterIntercept(o, result) ==
    IF o.via = "direct"
    THEN [o EXCEPT !.pc = "done", !.result = Some(result),
                   !.reply = Some([kind |-> "result", value |-> result])]
    ELSE IF ~result.proceed
    THEN [o EXCEPT !.pc = "done", !.result = Some(result),
                   !.reply = Some([kind |-> "response",
                       response |-> jsonRpcError(
                           Get(JsonParse(o.text).value, "id"),
                           OrElse(result.decision.reason, DeniedMessage))])]
    ELSE [o EXCEPT !.pc = "forward", !.result = Some(result),
                   !.backendReqs = Append(@, forward(OrElse(o.headers, None), o.text))]

\* buildContext() has settled: intercept() calls client.request(), which
\* throws at once (caught by intercept) or issues the decision request.
ContextBuilt ==
    /\ op.pc = "ctx"
    /\ LET tc == OrElse(op.toolCall, None)
       IN  IF requestGuard = "send"
           THEN op' = [op EXCEPT !.pc = "govern",
                                 !.govReqs = Append(@, GovernRequest(tc))]
           ELSE op' = AfterIntercept(
                        [op EXCEPT !.govReply = Some([ok |-> FALSE,
                                                      error |-> requestGuard])],
                        InterceptFailure(failurePolicy, tc.name))
    /\ UNCHANGED <<agentVars, clientVars, policyVars, validatorVars, sessionVars, settled, contextVars, hostVars>>

\* The decision service answers the request.
GovernReplyOk ==
    \E decision \in GovernResponses :
        /\ op.pc = "govern"
        /\ op' = AfterIntercept(
                   [op EXCEPT !.govReply = Some([ok |-> TRUE, decision |-> decision])],
                   InterceptSuccess(mode, decision))
        /\ UNCHANGED <<agentVars, clientVars, policyVars, validatorVars, sessionVars, settled, contextVars, hostVars>>

\* The decision request fails: network error, timeout, or a response not ok.
GovernReplyFail ==
    \E f \in FetchFailures :
        /\ op.pc = "govern"
        /\ op' = AfterIntercept(
                   [op EXCEPT !.govReply = Some([ok |-> FALSE, error |-> f])],
                   InterceptFailure(failurePolicy, OrElse(op.toolCall, None).name))
        /\ UNCHANGED <<agentVars, clientVars, policyVars, validatorVars, sessionVars, settled, contextVars, hostVars>>

\* The statuses the upstream may answer with
UpstreamStatuses == {200}

\* The upstream answers the forwarded request: handler() returns its response.
BackendReplyOk ==
    \E status \in UpstreamStatuses :
        /\ op.pc = "forward"
        /\ op' = [op EXCEPT !.pc = "done",
                            !.backendReply = Some([ok |-> TRUE, status |-> status]),
                            !.reply = Some([kind |-> "response",
                                response |-> [status |-> status,
                                              contentType |-> "application/json",
                                              body |-> JStr("upstream")]])]
        /\ UNCHANGED <<agentVars, clientVars, policyVars, validatorVars, sessionVars, settled, contextVars, hostVars>>

\* The forwarded request fails in transport: handler() rejects with it.
BackendReplyFail_answers502 ==
    \E f \in {"network", "timeout"} :
        /\ op.pc = "forward"
        /\ op' = [op EXCEPT !.pc = "done",
                            !.backendReply = Some([ok |-> FALSE, error |-> f]),
                            !.reply = Some([kind |-> "response",
                                response |-> [status |-> 502,
                                              contentType |-> "application/json",
                                              body |-> JStr(f)]])]
        /\ UNCHANGED <<agentVars, clientVars, policyVars, validatorVars, sessionVars, settled, contextVars, hostVars>>

BackendReplyFail ==
    \E f \in {"network", "timeout"} :
        /\ op.pc = "forward"
        /\ op' = [op EXCEPT !.pc = "done",
                            !.backendReply = Some([ok |-> FALSE, error |-> f]),
                            !.reply = Some([kind |-> "raised", error |-> f])]
        /\ UNCHANGED <<agentVars, clientVars, policyVars, validatorVars, sessionVars, settled, contextVars, hostVars>>

\* The caller has its answer; the next call may start.
OpReturn ==
    /\ op.pc = "done"
    /\ op' = IdleOp
    /\ UNCHANGED <<agentVars, clientVars, policyVars, validatorVars, sessionVars, settled, contextVars, hostVars>>

\* ------------------------------------- the parts a specification leaves out

\* SpecPolicy's variables, where failureModeFor() is not under test
PolicyIdle ==
    /\ polConfig = [mode |-> None, failurePolicy |-> None]
    /\ polName = << >>
    /\ polResult = None

\* The validator's variables, where no validator runs
ValidatorIdle ==
    /\ serverKeys = EmptyMap
    /\ ticks = 0
    /\ jwksCache = None
    /\ jwksCachedAt = 0
    /\ jwksFetchedAt = 0
    /\ cryptoKeyCache = EmptyMap
    /\ vcall = EmptyMap

\* The client's, agent's and proxy's variables, where none of them runs
AgentIdle ==
    /\ mode = "enforcing"
    /\ failurePolicy = ContextPolicy([mode |-> None, failurePolicy |-> None])
    /\ jwt = None
    /\ jwtExpiresAt = 0
    /\ destroyed = FALSE
    /\ refreshTimer = None
    /\ heartbeatTimer = None
    /\ timers = {}
    /\ nextTimer = 1
    /\ exchanges = {}
    /\ nExchanges = 0
    /\ op = IdleOp

\* The variables of a client used directly, where only the agent uses it
SessionIdle ==
    /\ req = IdleReq
    /\ heartbeats = {}
    /\ settled = None

\* One buildContext() call: the hooks registered, what Promise.all() holds of
\* each, the order in which they settled, and the merged context returned
IdleBuild ==
    [pc |-> "idle", hooks |-> << >>, started |-> {}, results |-> << >>,
     order |-> << >>, merged |-> None]

\* buildContext()'s variables, where no hook is registered
ContextIdle == build = IdleBuild

\* One request through the middleware: the token taken from the header, the
\* claims attached to req.spud, the calls of next(), the responses sent
IdleMw ==
    [pc |-> "idle", token |-> None, validated |-> FALSE, failure |-> None,
     spud |-> None, nextCalls |-> 0, responses |-> << >>]

\* One use of an adapter: the tool calls it asks intercept() about, what
\* intercept() returned for each, which of them were let through (the original
\* tool ran, or the call stayed in the model's result), the error thrown
IdleWrap ==
    [pc |-> "idle", adapter |-> "none", calls |-> << >>, verdicts |-> << >>,
     passed |-> << >>, thrown |-> None]

\* One stream through wrapStream's transform: the model's parts and how many
\* were read, the parts buffered per call id, deniedCallIds, the ids
\* intercept() let through, and the parts enqueued downstream
IdleStream ==
    [pc |-> "idle", input |-> << >>, pos |-> 1, buffered |-> EmptyMap,
     denied |-> {}, permitted |-> {}, out |-> << >>]

\* The hosts' variables, where no host framework is attached
HostIdle ==
    /\ mw = IdleMw
    /\ wrap = IdleWrap
    /\ stream = IdleStream

\* ------------------------------------------------------------- SpecClient

\* A client constructed and not yet connected, used directly by its owner
InitClient ==
    /\ now = Epoch
    /\ AgentIdle
    /\ PolicyIdle
    /\ ValidatorIdle
    /\ SessionIdle
    /\ ContextIdle
    /\ HostIdle

NextClient ==
    \/ SessionConnect
    \/ TokenExchangeSettle
    \/ SessionRefreshFire
    \/ RetryFire
    \/ Destroy
    \/ HeartbeatFire
    \/ HeartbeatSettle
    \/ RequestCall
    \/ RequestReply
    \/ RequestFail
    \/ RequestReturn

\* ------------------------------------------------------------------- Spec

Init ==
    /\ \E config \in AgentConfigs :
          /\ mode = ContextMode(config)
          /\ failurePolicy = ContextPolicy(config)
    /\ now = Epoch
    /\ jwt = None
    /\ jwtExpiresAt = 0
    /\ destroyed = FALSE
    /\ refreshTimer = None
    /\ heartbeatTimer = None
    /\ timers = {}
    /\ nextTimer = 1
    /\ exchanges = {}
    /\ nExchanges = 0
    /\ op = IdleOp
    /\ PolicyIdle
    /\ ValidatorIdle
    /\ SessionIdle
    /\ ContextIdle
    /\ HostIdle

Next ==
    \/ Connect
    \/ TokenExchangeReply
    \/ RefreshFire
    \/ RetryFire
    \/ Destroy
    \/ InterceptCall
    \/ HandlerCall
    \/ ContextBuilt
    \/ GovernReplyOk
    \/ GovernReplyFail
    \/ BackendReplyOk
    \/ BackendReplyFail
    \/ OpReturn

vars == <<mode, failurePolicy, now, jwt, jwtExpiresAt, destroyed, refreshTimer,
          heartbeatTimer, timers, nextTimer, exchanges, nExchanges, op,
          polConfig, polName, polResult,
          serverKeys, ticks, jwksCache, jwksCachedAt, jwksFetchedAt,
          cryptoKeyCache, vcall, req, heartbeats, settled, build, mw, wrap, stream>>

Spec == Init /\ [][Next]_vars

SpecClient == InitClient /\ [][NextClient]_vars

\* -------------------------------------------------------------- SpecPolicy

Alphabet == {"a", "b", "*"}

\* Every string over Alphabet of length at most n
StringsUpTo(n) == UNION {[1..k -> Alphabet] : k \in 0..n}

\* The pattern lists drawn: undefined, every list of at most one pattern, and
\* every list of two patterns of at most one character.
PatternLists ==
    {None} \cup {Some(<< >>)}
           \cup {Some(<<p>>) : p \in StringsUpTo(MaxPatLen)}
           \cup {Some(<<p, q>>) : p \in StringsUpTo(1), q \in StringsUpTo(1)}

DrawnPolicyInputs ==
    [config : [mode : {None},
               failurePolicy : {None} \cup
                   {Some(fp) : fp \in [failOpen : PatternLists,
                                       failClosed : PatternLists,
                                       default : {None, Some("open"), Some("closed")}]}],
     name : StringsUpTo(MaxPatLen)]

\* The names and patterns of the documented examples
GetUser == <<"g", "e", "t", "_", "u", "s", "e", "r">>

GetOrders == <<"g", "e", "t", "_", "o", "r", "d", "e", "r", "s">>

GetuserNoSep == <<"g", "e", "t", "u", "s", "e", "r">>

ListGet == <<"l", "i", "s", "t", "_", "g", "e", "t">>

SendStar == <<"s", "e", "n", "d", "_", "*">>

SendEmail == <<"s", "e", "n", "d", "_", "e", "m", "a", "i", "l">>

GetStarOpenConfig ==
    [mode |-> None,
     failurePolicy |-> Some([failOpen |-> Some(<<GetStar>>), failClosed |-> None,
                             default |-> None])]

SendBothConfig ==
    [mode |-> None,
     failurePolicy |-> Some([failOpen |-> Some(<<SendStar>>),
                             failClosed |-> Some(<<SendStar>>),
                             default |-> None])]

ExamplePolicyInputs ==
    { [config |-> GetStarOpenConfig, name |-> GetUser],
      [config |-> GetStarOpenConfig, name |-> GetOrders],
      [config |-> GetStarOpenConfig, name |-> GetuserNoSep],
      [config |-> GetStarOpenConfig, name |-> ListGet],
      [config |-> SendBothConfig, name |-> SendEmail] }

InitPolicy ==
    /\ \E input \in DrawnPolicyInputs \cup ExamplePolicyInputs :
          /\ polConfig = input.config
          /\ polName = input.name
    /\ polResult = None
    /\ now = Epoch
    /\ AgentIdle
    /\ ValidatorIdle
    /\ SessionIdle
    /\ ContextIdle
    /\ HostIdle

\* new AgentContext(config).failureModeFor(name)
PolicyApply ==
    /\ polResult = None
    /\ polResult' = Some(failureModeFor(ContextPolicy(polConfig), polName))
    /\ UNCHANGED <<polConfig, polName>>
    /\ UNCHANGED <<agentVars, clientVars, op, validatorVars, sessionVars, settled, contextVars, hostVars>>

NextPolicy == PolicyApply

SpecPolicy == InitPolicy /\ [][NextPolicy]_vars

\* ------------------------------------------ AgentContext.buildContext()

\* What an enrichment hook may resolve to
OutA1 == [k \in {"a"} |-> 1]

OutA2B2 == [k \in {"a", "b"} |-> 2]

OutB1 == [k \in {"b"} |-> 1]

\* A provider that returns the keys intercept() sets itself
OutToolName ==
    [k \in {"tool_name", "tool_arguments"} |->
        IF k = "tool_name" THEN <<"g", "e", "t", "_", "u">> ELSE [t |-> "null"]]

HookOutputs == {EmptyObject, OutA1, OutA2B2, OutB1, OutToolName}

\* this.hooks: what each registered hook resolves to, in registration order
HookLists == UNION {[1..n -> HookOutputs] : n \in 0..MaxHooks}

\* Object.assign({}, ...results)
RECURSIVE AssignAll(_)
AssignAll(results) ==
    IF results = << >> THEN EmptyObject
    ELSE ObjectAssign(AssignAll(SubSeq(results, 1, Len(results) - 1)),
                      results[Len(results)])

\* buildContext(toolCall) up to its await: every hook has been called, in
\* registration order, and Promise.all() waits for their promises.
buildContextStart(hooks) ==
    [IdleBuild EXCEPT !.pc = "waiting", !.hooks = hooks,
                      !.started = 1..Len(hooks),
                      !.results = [i \in 1..Len(hooks) |-> None]]

\* buildContext(toolCall) is called.
BuildCall ==
    \E hooks \in HookLists :
        /\ build.pc = "idle"
        /\ build' = buildContextStart(hooks)
        /\ UNCHANGED <<agentVars, clientVars, op, policyVars, validatorVars,
                       sessionVars, settled, hostVars>>

\* The promise of the hook registered i-th has not settled
Pending(i) == \A j \in 1..Len(build.order) : build.order[j] # i

\* The hook registered i-th fulfils: Promise.all() keeps its value at index i.
HookSettle_keepsInSettleOrder ==
    \E i \in build.started :
        /\ build.pc \in {"waiting", "rejected"}
        /\ Pending(i)
        /\ build' = [build EXCEPT !.order = Append(@, i),
                        !.results[Len(build.order) + 1] = Some(build.hooks[i])]
        /\ UNCHANGED <<agentVars, clientVars, op, policyVars, validatorVars,
                       sessionVars, settled, hostVars>>

HookSettle ==
    \E i \in build.started :
        /\ build.pc \in {"waiting", "rejected"}
        /\ Pending(i)
        /\ build' = [build EXCEPT !.order = Append(@, i),
                                  !.results[i] = Some(build.hooks[i])]
        /\ UNCHANGED <<agentVars, clientVars, op, policyVars, validatorVars,
                       sessionVars, settled, hostVars>>

\* The hook registered i-th rejects: Promise.all() rejects at once, and so
\* does buildContext(), whatever the other hooks are doing. A later rejection
\* is ignored.
HookReject ==
    \E i \in build.started :
        /\ build.pc \in {"waiting", "rejected"}
        /\ Pending(i)
        /\ build' = [build EXCEPT !.pc = "rejected", !.order = Append(@, i)]
        /\ UNCHANGED <<agentVars, clientVars, op, policyVars, validatorVars,
                       sessionVars, settled, hostVars>>

\* Every hook has settled: buildContext() merges the results and returns.
BuildMerge ==
    /\ build.pc = "waiting"
    /\ \A i \in 1..Len(build.hooks) : build.results[i] # None
    /\ build' = [build EXCEPT !.pc = "done",
                    !.merged = Some(AssignAll([i \in 1..Len(build.hooks) |->
                                                  Val(build.results[i])]))]
    /\ UNCHANGED <<agentVars, clientVars, op, policyVars, validatorVars,
                   sessionVars, settled, hostVars>>

\* The caller has the context; the next buildContext() may start.
BuildReturn ==
    /\ build.pc \in {"done", "rejected"}
    /\ build' = IdleBuild
    /\ UNCHANGED <<agentVars, clientVars, op, policyVars, validatorVars,
                   sessionVars, settled, hostVars>>

InitContext ==
    /\ now = Epoch
    /\ AgentIdle
    /\ PolicyIdle
    /\ ValidatorIdle
    /\ SessionIdle
    /\ ContextIdle
    /\ HostIdle

NextContext ==
    \/ BuildCall
    \/ HookSettle
    \/ HookReject
    \/ BuildMerge
    \/ BuildReturn

SpecContext == InitContext /\ [][NextContext]_vars

\* ------------------------------- intercept() with enrichment hooks registered

\* agent.intercept(toolCall) is called on an agent with hooks registered:
\* buildContext() calls them all and suspends intercept().
EnrichedInterceptCall ==
    \E tc \in DirectToolCalls : \E hooks \in HookLists :
        /\ op.pc = "idle"
        /\ build.pc = "idle"
        /\ op' = interceptStart(tc)
        /\ build' = buildContextStart(hooks)
        /\ UNCHANGED <<agentVars, clientVars, policyVars, validatorVars,
                       sessionVars, settled, hostVars>>

\* buildContext() has returned the merged context: intercept() goes on to
\* client.request().
EnrichedContextBuilt ==
    /\ build.pc = "done"
    /\ ContextBuilt

EnrichedContextFailed_appliesFailurePolicy ==
    /\ op.pc = "ctx"
    /\ build.pc = "rejected"
    /\ op' = AfterIntercept(
                [op EXCEPT !.govReply = Some([ok |-> FALSE, error |-> "HookError"])],
                InterceptFailure(failurePolicy, Val(op.toolCall).name))
    /\ UNCHANGED <<agentVars, clientVars, policyVars, validatorVars,
                   sessionVars, settled, contextVars, hostVars>>

\* buildContext() has rejected: the await in intercept() is outside its try,
\* so intercept() rejects with the hook's error.
EnrichedContextFailed ==
    /\ op.pc = "ctx"
    /\ build.pc = "rejected"
    /\ op' = [op EXCEPT !.pc = "done",
                        !.reply = Some([kind |-> "raised", error |-> "HookError"])]
    /\ UNCHANGED <<agentVars, clientVars, policyVars, validatorVars,
                   sessionVars, settled, contextVars, hostVars>>

\* The caller has its answer; the next intercept() may start.
EnrichedReturn ==
    /\ op.pc = "done"
    /\ op' = IdleOp
    /\ build' = IdleBuild
    /\ UNCHANGED <<agentVars, clientVars, policyVars, validatorVars,
                   sessionVars, settled, hostVars>>

\* client.connect(), in SpecEnrich
EnrichConnect == ConnectUpTo(MaxEnrichExchanges)

InitEnrich ==
    /\ now = Epoch
    /\ AgentIdle
    /\ PolicyIdle
    /\ ValidatorIdle
    /\ SessionIdle
    /\ ContextIdle
    /\ HostIdle

NextEnrich ==
    \/ EnrichConnect
    \/ TokenExchangeReply
    \/ EnrichedInterceptCall
    \/ HookSettle
    \/ HookReject
    \/ BuildMerge
    \/ EnrichedContextBuilt
    \/ EnrichedContextFailed
    \/ GovernReplyOk
    \/ GovernReplyFail
    \/ EnrichedReturn

SpecEnrich == InitEnrich /\ [][NextEnrich]_vars

\* ------------------------------------------------ framework adapters

\* tc.args of a model's tool call: JSON text of an object, or text that does
\* not parse
ArgsTexts == {"{\"to\":\"a@b.com\"}", "{oops"}

\* wrapGenerate: JSON.parse(tc.args), {} when it throws
parseArgs(text) == IF text = "{oops" THEN JEmptyObj ELSE Args1

\* result.toolCalls of doGenerate()
ModelToolCalls ==
    UNION {[1..n -> [toolName : {GetU, Del}, args : ArgsTexts]] : n \in 0..MaxToolCalls}

\* The inputs a LangChain tool may be invoked with
InvokeInputs == {Args1, JStr("q"), JNull}

\* wrapTool: the arguments intercept() is given for an input
invokeArgs(input) ==
    IF input.t \in {"obj", "arr"} THEN input
    ELSE JObj([k \in {"input"} |-> input])

\* The calls one use of an adapter asks intercept() about, in order
AdapterUses ==
    {[adapter |-> "vercel.wrapTools",
      calls |-> <<[name |-> n, arguments |-> Args1]>>] : n \in {GetU, Del}}
    \cup {[adapter |-> "langchain.wrapTool",
           calls |-> <<[name |-> Del, arguments |-> invokeArgs(i)]>>] : i \in InvokeInputs}
    \cup {[adapter |-> "vercel.wrapGenerate",
           calls |-> [i \in 1..Len(tcs) |->
                         [name |-> tcs[i].toolName,
                          arguments |-> parseArgs(tcs[i].args)]]] : tcs \in ModelToolCalls}

\* The message of the SpudError an execute()/invoke() wrapper throws
DeniedByPolicy(name) == <<"Tool \"", name, "\" denied by governance policy">>

ToolDenied(name, decision) ==
    [code |-> "TOOL_DENIED",
     message |-> IF decision.reason # None THEN <<Val(decision.reason)>>
                 ELSE DeniedByPolicy(name)]

\* An adapter is used: a wrapped tool's execute()/invoke() is called, or
\* wrapGenerate() has the model's result. It calls intercept() for its first
\* tool call, or returns at once when the model made none.
AdapterCall ==
    \E use \in AdapterUses :
        /\ wrap.pc = "idle"
        /\ op.pc = "idle"
        /\ IF use.calls = << >>
           THEN /\ wrap' = [IdleWrap EXCEPT !.pc = "done", !.adapter = use.adapter]
                /\ UNCHANGED op
           ELSE /\ wrap' = [IdleWrap EXCEPT !.pc = "intercepting",
                                !.adapter = use.adapter, !.calls = use.calls]
                /\ op' = interceptStart(use.calls[1])
        /\ UNCHANGED <<mw, stream>>
        /\ UNCHANGED <<agentVars, clientVars, policyVars, validatorVars,
                       sessionVars, settled, contextVars>>

\* execute()/invoke() of a wrapped tool, after intercept() returned
afterIntercept_wrapped(w, result) ==
    LET i == Len(w.verdicts) + 1
        seen == [w EXCEPT !.verdicts = Append(@, result)]
    IN  IF ~result.proceed
        THEN [seen EXCEPT !.pc = "done",
                          !.thrown = Some(ToolDenied(w.calls[i].name, result.decision))]
        ELSE [seen EXCEPT !.pc = "done", !.passed = Append(@, i)]

\* wrapGenerate's loop body, after intercept() returned
afterIntercept_generate(w, result) ==
    LET i == Len(w.verdicts) + 1
        seen == [w EXCEPT !.verdicts = Append(@, result)]
        kept == IF result.proceed
                THEN [seen EXCEPT !.passed = Append(@, i)] ELSE seen
    IN  IF Len(kept.verdicts) = Len(kept.calls)
        THEN [kept EXCEPT !.pc = "done"]
        ELSE kept

\* intercept() has returned to the adapter: the wrapped tool runs or the
\* wrapper throws; wrapGenerate keeps or drops the call and goes on to the
\* next one, or returns the result with the calls it kept.
AdapterSettle ==
    LET result == Val(op.result)
        w == IF wrap.adapter = "vercel.wrapGenerate"
             THEN afterIntercept_generate(wrap, result)
             ELSE afterIntercept_wrapped(wrap, result)
    IN  /\ wrap.pc = "intercepting"
        /\ op.pc = "done"
        /\ wrap' = w
        /\ op' = IF w.pc = "done" THEN IdleOp
                 ELSE interceptStart(w.calls[Len(w.verdicts) + 1])
        /\ UNCHANGED <<mw, stream>>
        /\ UNCHANGED <<agentVars, clientVars, policyVars, validatorVars,
                       sessionVars, settled, contextVars>>

\* The adapter's caller has its answer; the next use may start.
AdapterReturn ==
    /\ wrap.pc = "done"
    /\ wrap' = IdleWrap
    /\ UNCHANGED <<mw, stream>>
    /\ UNCHANGED <<agentVars, clientVars, op, policyVars, validatorVars,
                   sessionVars, settled, contextVars>>

InitAdapter ==
    /\ \E config \in AgentConfigs :
          /\ mode = ContextMode(config)
          /\ failurePolicy = ContextPolicy(config)
    /\ now = Epoch
    /\ jwt = None
    /\ jwtExpiresAt = 0
    /\ destroyed = FALSE
    /\ refreshTimer = None
    /\ heartbeatTimer = None
    /\ timers = {}
    /\ nextTimer = 1
    /\ exchanges = {}
    /\ nExchanges = 0
    /\ op = IdleOp
    /\ PolicyIdle
    /\ ValidatorIdle
    /\ SessionIdle
    /\ ContextIdle
    /\ HostIdle

NextAdapter ==
    \/ EnrichConnect
    \/ TokenExchangeReply
    \/ AdapterCall
    \/ ContextBuilt
    \/ GovernReplyOk
    \/ GovernReplyFail
    \/ AdapterSettle
    \/ AdapterReturn

SpecAdapter == InitAdapter /\ [][NextAdapter]_vars

\* ------------------------------------------ spudMiddleware.wrapStream

\* The parts of a model's stream
TextPart ==
    [type |-> "text-delta", toolCallId |-> None, toolName |-> None, text |-> "hi"]

DeltaPart(id, text) ==
    [type |-> "tool-call-delta", toolCallId |-> id, toolName |-> None, text |-> text]

CallPart(id, name) ==
    [type |-> "tool-call", toolCallId |-> Some(id), toolName |-> Some(name),
     text |-> "{\"to\":\"a@b.com\"}"]

CallIds == {"1", "2"}

StreamParts ==
    {TextPart, DeltaPart(None, "x")}
    \cup {DeltaPart(Some(id), text) : id \in CallIds, text \in {"x", "y"}}
    \cup {CallPart(id, name) : id \in CallIds, name \in {GetU, Del}}

\* The streams doStream() may give: a model emits one tool-call part per call id
StreamInputs ==
    {input \in UNION {[1..n -> StreamParts] : n \in 0..MaxParts} :
        \A i, j \in 1..Len(input) :
            (input[i].type = "tool-call" /\ input[j].type = "tool-call"
                /\ input[i].toolCallId = input[j].toolCallId) => i = j}

\* The agent whose intercept() the stream's middleware calls: its client is
\* not connected, so the failure policy decides: get_* open, del closed
StreamConfig ==
    [mode |-> None,
     failurePolicy |-> Some([failOpen |-> Some(<<GetStar>>),
                             failClosed |-> Some(<<Del>>),
                             default |-> None])]

\* buffered.get(id) ?? []
bufferedOf(buffered, id) ==
    IF id \in DOMAIN buffered THEN buffered[id] ELSE << >>

\* buffered with the entry of id set to parts
bufferedSet(buffered, id, parts) ==
    [k \in DOMAIN buffered \cup {id} |-> IF k = id THEN parts ELSE buffered[k]]

\* buffered.delete(id)
bufferedDelete(buffered, id) ==
    [k \in DOMAIN buffered \ {id} |-> buffered[k]]

\* wrapStream() is called and the consumer starts reading.
StreamOpen ==
    /\ stream.pc = "idle"
    /\ \E input \in StreamInputs :
           stream' = [IdleStream EXCEPT !.pc = "reading", !.input = input]
    /\ UNCHANGED <<mw, wrap>>
    /\ UNCHANGED <<agentVars, clientVars, op, policyVars, validatorVars,
                   sessionVars, settled, contextVars>>

\* transform(chunk) up to its return or its await of intercept()
transformChunk(s, chunk) ==
    IF chunk.type = "tool-call-delta" /\ chunk.toolCallId # None
    THEN LET id == Val(chunk.toolCallId)
         IN  [s EXCEPT !.pos = @ + 1,
                       !.buffered = bufferedSet(@, id,
                                        Append(bufferedOf(@, id), chunk))]
    ELSE IF chunk.type = "tool-call" /\ chunk.toolCallId # None
                                     /\ chunk.toolName # None
    THEN [s EXCEPT !.pc = "intercepting"]
    ELSE [s EXCEPT !.pos = @ + 1, !.out = Append(@, chunk)]

\* The transform is given the next part of the model's stream.
StreamChunk ==
    LET chunk == stream.input[stream.pos]
        s == transformChunk(stream, chunk)
    IN  /\ stream.pc = "reading"
        /\ stream.pos <= Len(stream.input)
        /\ op.pc = "idle"
        /\ stream' = s
        /\ op' = IF s.pc = "intercepting"
                 THEN interceptStart([name |-> Val(chunk.toolName),
                                      arguments |-> parseArgs(chunk.text)])
                 ELSE op
        /\ UNCHANGED <<mw, wrap>>
        /\ UNCHANGED <<agentVars, clientVars, policyVars, validatorVars,
                       sessionVars, settled, contextVars>>

\* transform(chunk) after intercept() returned: drop the call, or flush its
\* buffered deltas and then the complete part
transformResume_callFirst(s, chunk, proceed) ==
    LET id == Val(chunk.toolCallId)
    IN  IF ~proceed
        THEN [s EXCEPT !.pc = "reading", !.pos = @ + 1,
                       !.denied = @ \cup {id},
                       !.buffered = bufferedDelete(@, id)]
        ELSE [s EXCEPT !.pc = "reading", !.pos = @ + 1,
                       !.permitted = @ \cup {id},
                       !.out = (@ \o <<chunk>>) \o bufferedOf(s.buffered, id),
                       !.buffered = bufferedDelete(@, id)]

transformResume(s, chunk, proceed) ==
    LET id == Val(chunk.toolCallId)
    IN  IF ~proceed
        THEN [s EXCEPT !.pc = "reading", !.pos = @ + 1,
                       !.denied = @ \cup {id},
                       !.buffered = bufferedDelete(@, id)]
        ELSE [s EXCEPT !.pc = "reading", !.pos = @ + 1,
                       !.permitted = @ \cup {id},
                       !.out = (@ \o bufferedOf(s.buffered, id)) \o <<chunk>>,
                       !.buffered = bufferedDelete(@, id)]

\* intercept() has returned to the transform.
StreamResume ==
    /\ stream.pc = "intercepting"
    /\ op.pc = "done"
    /\ stream' = transformResume(stream, stream.input[stream.pos],
                                 Val(op.result).proceed)
    /\ op' = IdleOp
    /\ UNCHANGED <<mw, wrap>>
    /\ UNCHANGED <<agentVars, clientVars, policyVars, validatorVars,
                   sessionVars, settled, contextVars>>

\* The model's stream ends: the transform has no flush, what is still
\* buffered is dropped.
StreamClose ==
    /\ stream.pc = "reading"
    /\ stream.pos > Len(stream.input)
    /\ stream' = [stream EXCEPT !.pc = "done"]
    /\ UNCHANGED <<mw, wrap>>
    /\ UNCHANGED <<agentVars, clientVars, op, policyVars, validatorVars,
                   sessionVars, settled, contextVars>>

\* The consumer is done with the stream; the next one may start.
StreamReturn ==
    /\ stream.pc = "done"
    /\ stream' = IdleStream
    /\ UNCHANGED <<mw, wrap>>
    /\ UNCHANGED <<agentVars, clientVars, op, policyVars, validatorVars,
                   sessionVars, settled, contextVars>>

InitStream ==
    /\ mode = ContextMode(StreamConfig)
    /\ failurePolicy = ContextPolicy(StreamConfig)
    /\ now = Epoch
    /\ jwt = None
    /\ jwtExpiresAt = 0
    /\ destroyed = FALSE
    /\ refreshTimer = None
    /\ heartbeatTimer = None
    /\ timers = {}
    /\ nextTimer = 1
    /\ exchanges = {}
    /\ nExchanges = 0
    /\ op = IdleOp
    /\ PolicyIdle
    /\ ValidatorIdle
    /\ SessionIdle
    /\ ContextIdle
    /\ HostIdle

NextStream ==
    \/ StreamOpen
    \/ StreamChunk
    \/ ContextBuilt
    \/ StreamResume
    \/ StreamClose
    \/ StreamReturn

SpecStream == InitStream /\ [][NextStream]_vars

\* ----------------------------------------------------------- SpudValidator

DEFAULT_JWKS_CACHE_TTL_MS == 3600000

Callers == {"c1", "c2"}

\* The key sets the platform may publish: kid -> key material
KeySet1 == [k \in {"k1"} |-> "m1"]

KeySet12 == [k \in {"k1", "k2"} |-> IF k = "k1" THEN "m1" ELSE "m2"]

KeySet2 == [k \in {"k2"} |-> "m2"]

KeySets == {KeySet1, KeySet12, KeySet2}

\* A JWT: its number of dot-separated segments, its header's kid and alg, the
\* key that signed it, and its exp claim
Token(kid, alg, signer, exp) ==
    [parts |-> 3, kid |-> kid, alg |-> alg, signer |-> signer, exp |-> exp]

\* The well-formed, validly signed, unexpired tokens of the two keys at time t
GoodTokens(t) ==
    {Token(Some("k1"), Some("RS256"), "m1", Some(t + 1)),
     Token(Some("k2"), Some("ES256"), "m2", Some(t + 1))}

\* The tokens caller c may present at time t: c1 any, c2 a good one of k1
Tokens(c, t) ==
    IF c = "c2" THEN {Token(Some("k1"), Some("RS256"), "m1", Some(t + 1))}
    ELSE GoodTokens(t)
         \cup {Token(Some("k1"), Some("RS256"), "m1", e) :
                  e \in {None, Some(t - 1), Some(t)}}
         \cup {Token(Some("k1"), Some("RS256"), "m2", Some(t + 1)),
               Token(Some("k2"), Some("HS256"), "m2", Some(t + 1)),
               Token(None, Some("RS256"), "m1", Some(t + 1)),
               [Token(Some("k1"), Some("RS256"), "m1", Some(t + 1)) EXCEPT !.parts = 2]}

\* getVerifyParams / getImportParams: whether the switch has a case for alg
algSupported(alg) == alg \in {"RS256", "ES256"}

\* validateToken(), the expiry check on the decoded claims
checkExpiry(exp, nowSec) ==
    IF exp # None /\ Val(exp) < nowSec THEN "TOKEN_EXPIRED" ELSE "ok"

\* Date.now()
nowMs == now * 1000

\* fetchJwks(): whether it returns the cached key set without fetching
cacheFresh(cachedAt) ==
    jwksCache # None /\ nowMs - cachedAt < DEFAULT_JWKS_CACHE_TTL_MS

IdleCall ==
    [pc |-> "idle", kind |-> "none",
     token |-> Token(None, None, "", None),
     fetchKind |-> "none",   \* the fetch in flight: "ttl", "forced" or "init"
     fetchNow |-> 0,         \* fetchJwks()'s local now
     jwk |-> None,           \* getSigningKey()'s local jwk
     key |-> None,           \* validateToken()'s local key
     fetchLog |-> << >>,     \* the key-set fetches this call issued
     missed |-> FALSE,       \* a find() on the key set missed the kid
     refetched |-> None,     \* the key set the forced refetch returned
     verified |-> FALSE,     \* the signature verified
     checkedAt |-> 0,        \* the clock when verify() resolved
     outcome |-> ""]         \* "ok" or the error's code

Finish(r, outcome) == [r EXCEPT !.pc = "done", !.outcome = outcome]

\* getSigningKey() from a find() on jwks onward, up to the next suspension.
\* second: the find() after the forced refetch.  cachedAt: this.jwksCachedAt
\* before the step.  Gives the call's next record and this.jwksCachedAt.
lookup_noRefetch(r, jwks, second, cachedAt) ==
    LET kid == Val(r.token.kid)
        alg == Val(r.token.alg)
    IN  IF kid \in DOMAIN jwks
        THEN [call |-> IF algSupported(alg)
                       THEN [r EXCEPT !.pc = "import", !.jwk = Some(jwks[kid])]
                       ELSE Finish(r, "UNSUPPORTED_ALG"),
              cachedAt |-> cachedAt]
        ELSE [call |-> Finish([r EXCEPT !.missed = TRUE], "KEY_NOT_FOUND"),
              cachedAt |-> cachedAt]

lookup(r, jwks, second, cachedAt) ==
    LET kid == Val(r.token.kid)
        alg == Val(r.token.alg)
    IN  IF kid \in DOMAIN jwks
        THEN \* importJwk(): getImportParams() throws, or importKey() suspends
             [call |-> IF algSupported(alg)
                       THEN [r EXCEPT !.pc = "import", !.jwk = Some(jwks[kid])]
                       ELSE Finish(r, "UNSUPPORTED_ALG"),
              cachedAt |-> cachedAt]
        ELSE IF second
        THEN [call |-> Finish([r EXCEPT !.missed = TRUE], "KEY_NOT_FOUND"),
              cachedAt |-> cachedAt]
        ELSE \* this.jwksCachedAt = 0; fetchJwks()
             IF cacheFresh(0)
             THEN [call |-> Finish([r EXCEPT !.missed = TRUE], "KEY_NOT_FOUND"),
                   cachedAt |-> 0]
             ELSE [call |-> [r EXCEPT !.missed = TRUE, !.pc = "fetch",
                                      !.fetchKind = "forced", !.fetchNow = nowMs,
                                      !.fetchLog = Append(@, "forced")],
                   cachedAt |-> 0]

\* validateToken(token) is called by c, and runs to its first suspension.
validateTokenStart(c, token) ==
    LET r == [IdleCall EXCEPT !.kind = "validate", !.token = token]
        kid == Val(token.kid)
    IN  /\ vcall[c].pc = "idle"
        /\ IF token.parts # 3 \/ token.kid = None \/ token.alg = None
           THEN /\ vcall' = [vcall EXCEPT ![c] = Finish(r, "INVALID_JWT")]
                /\ UNCHANGED jwksCachedAt
           ELSE IF kid \in DOMAIN cryptoKeyCache
           THEN \* the parsed key is cached: on to getVerifyParams() and verify()
                /\ vcall' = [vcall EXCEPT ![c] =
                       IF algSupported(Val(token.alg))
                       THEN [r EXCEPT !.pc = "verify",
                                      !.key = Some(cryptoKeyCache[kid])]
                       ELSE Finish(r, "UNSUPPORTED_ALG")]
                /\ UNCHANGED jwksCachedAt
           ELSE IF cacheFresh(jwksCachedAt)
           THEN LET step == lookup(r, Val(jwksCache), FALSE, jwksCachedAt)
                IN  /\ vcall' = [vcall EXCEPT ![c] = step.call]
                    /\ jwksCachedAt' = step.cachedAt
           ELSE /\ vcall' = [vcall EXCEPT ![c] =
                       [r EXCEPT !.pc = "fetch", !.fetchKind = "ttl",
                                 !.fetchNow = nowMs, !.fetchLog = <<"ttl">>]]
                /\ UNCHANGED jwksCachedAt
        /\ UNCHANGED <<serverKeys, ticks, jwksCache, cryptoKeyCache, now>>
        /\ UNCHANGED <<agentVars, jwt, jwtExpiresAt, destroyed, refreshTimer,
                       heartbeatTimer, timers, nextTimer, exchanges, nExchanges,
                       op, policyVars, sessionVars, settled, contextVars,
                       jwksFetchedAt>>

\* validateToken(token) is called by c directly.
ValidateCall(c, token) ==
    /\ validateTokenStart(c, token)
    /\ UNCHANGED hostVars

Validate == \E c \in Callers : \E token \in Tokens(c, now) : ValidateCall(c, token)

\* init() is called by c: fetchJwks()
ValidatorInit ==
    \E c \in {"c1"} :
        /\ vcall[c].pc = "idle"
        /\ vcall' = [vcall EXCEPT ![c] =
               IF cacheFresh(jwksCachedAt)
               THEN Finish([IdleCall EXCEPT !.kind = "init"], "ok")
               ELSE [IdleCall EXCEPT !.kind = "init", !.pc = "fetch",
                                     !.fetchKind = "init", !.fetchNow = nowMs,
                                     !.fetchLog = <<"init">>]]
        /\ UNCHANGED <<serverKeys, ticks, jwksCache, jwksCachedAt,
                       cryptoKeyCache, now>>
        /\ UNCHANGED <<agentVars, jwt, jwtExpiresAt, destroyed, refreshTimer,
                       heartbeatTimer, timers, nextTimer, exchanges, nExchanges,
                       op, policyVars, sessionVars, settled, contextVars, hostVars,
                       jwksFetchedAt>>

\* c's key-set fetch is answered with the key set published now: fetchJwks()
\* replaces the cache, and getSigningKey() goes on from its find().
JwksReplyOk ==
    \E c \in Callers :
        LET r == vcall[c]
            got == IF r.fetchKind = "forced"
                   THEN [r EXCEPT !.refetched = Some(serverKeys)] ELSE r
            step == lookup(got, serverKeys, r.fetchKind = "forced", r.fetchNow)
        IN  /\ r.pc = "fetch"
            /\ jwksCache' = Some(serverKeys)
            /\ jwksFetchedAt' = r.fetchNow
            /\ cryptoKeyCache' = EmptyMap
            /\ IF r.kind = "init"
               THEN /\ vcall' = [vcall EXCEPT ![c] = Finish(r, "ok")]
                    /\ jwksCachedAt' = r.fetchNow
               ELSE /\ vcall' = [vcall EXCEPT ![c] = step.call]
                    /\ jwksCachedAt' = step.cachedAt
            /\ UNCHANGED <<serverKeys, ticks, now>>
            /\ UNCHANGED <<agentVars, jwt, jwtExpiresAt, destroyed, refreshTimer,
                           heartbeatTimer, timers, nextTimer, exchanges,
                           nExchanges, op, policyVars, sessionVars, settled, contextVars, hostVars>>

\* c's key-set fetch fails: the response is not ok (JWKS_FETCH_FAILED) or
\* fetch() itself rejects.
JwksReplyFail ==
    \E c \in Callers : \E error \in {"JWKS_FETCH_FAILED", "TypeError"} :
        /\ vcall[c].pc = "fetch"
        /\ vcall' = [vcall EXCEPT ![c] = Finish(@, error)]
        /\ UNCHANGED <<serverKeys, ticks, jwksCache, jwksCachedAt,
                       cryptoKeyCache, now>>
        /\ UNCHANGED <<agentVars, jwt, jwtExpiresAt, destroyed, refreshTimer,
                       heartbeatTimer, timers, nextTimer, exchanges, nExchanges,
                       op, policyVars, sessionVars, settled, contextVars, hostVars,
                       jwksFetchedAt>>

\* crypto.subtle.importKey() resolves for c: the key is cached, and
\* validateToken() goes on to verify().
ImportDone ==
    \E c \in Callers :
        LET r == vcall[c]
            kid == Val(r.token.kid)
        IN  /\ r.pc = "import"
            /\ cryptoKeyCache' =
                  [k \in DOMAIN cryptoKeyCache \cup {kid} |->
                      IF k = kid THEN Val(r.jwk) ELSE cryptoKeyCache[k]]
            /\ vcall' = [vcall EXCEPT ![c] = [r EXCEPT !.pc = "verify", !.key = r.jwk]]
            /\ UNCHANGED <<serverKeys, ticks, jwksCache, jwksCachedAt, now>>
            /\ UNCHANGED <<agentVars, jwt, jwtExpiresAt, destroyed, refreshTimer,
                           heartbeatTimer, timers, nextTimer, exchanges,
                           nExchanges, op, policyVars, sessionVars, settled, contextVars, hostVars,
                       jwksFetchedAt>>

\* validateToken() from the result of verify() to its return
afterVerify_expiryFirst(r, valid, nowSec) ==
    IF checkExpiry(r.token.exp, nowSec) # "ok"
    THEN Finish([r EXCEPT !.checkedAt = nowSec], "TOKEN_EXPIRED")
    ELSE IF ~valid THEN Finish([r EXCEPT !.checkedAt = nowSec], "INVALID_SIGNATURE")
    ELSE Finish([r EXCEPT !.verified = TRUE, !.checkedAt = nowSec], "ok")

afterVerify(r, valid, nowSec) ==
    IF ~valid THEN Finish([r EXCEPT !.checkedAt = nowSec], "INVALID_SIGNATURE")
    ELSE Finish([r EXCEPT !.verified = TRUE, !.checkedAt = nowSec],
                checkExpiry(r.token.exp, nowSec))

\* crypto.subtle.verify() resolves for c: validateToken() checks the result
\* and the expiry, and returns.
VerifyDone ==
    \E c \in Callers :
        LET r == vcall[c]
            valid == r.token.signer = Val(r.key)
        IN  /\ r.pc = "verify"
            /\ vcall' = [vcall EXCEPT ![c] = afterVerify(r, valid, now)]
            /\ UNCHANGED <<serverKeys, ticks, jwksCache, jwksCachedAt,
                           cryptoKeyCache, now>>
            /\ UNCHANGED <<agentVars, jwt, jwtExpiresAt, destroyed, refreshTimer,
                           heartbeatTimer, timers, nextTimer, exchanges,
                           nExchanges, op, policyVars, sessionVars, settled, contextVars, hostVars,
                       jwksFetchedAt>>

\* c has its answer; its next call may start.
CallReturn ==
    \E c \in Callers :
        /\ vcall[c].pc = "done"
        /\ vcall' = [vcall EXCEPT ![c] = IdleCall]
        /\ UNCHANGED <<serverKeys, ticks, jwksCache, jwksCachedAt,
                       cryptoKeyCache, now>>
        /\ UNCHANGED <<agentVars, jwt, jwtExpiresAt, destroyed, refreshTimer,
                       heartbeatTimer, timers, nextTimer, exchanges, nExchanges,
                       op, policyVars, sessionVars, settled, contextVars, hostVars,
                       jwksFetchedAt>>

\* The platform rotates its signing keys: the new key is published next to
\* the old one, and then the old one is retired.
Rotate ==
    \E ks \in KeySets :
        /\ \/ serverKeys = KeySet1 /\ ks = KeySet12
           \/ serverKeys = KeySet12 /\ ks = KeySet2
        /\ serverKeys' = ks
        /\ UNCHANGED <<ticks, jwksCache, jwksCachedAt, cryptoKeyCache, vcall, now>>
        /\ UNCHANGED <<agentVars, jwt, jwtExpiresAt, destroyed, refreshTimer,
                       heartbeatTimer, timers, nextTimer, exchanges, nExchanges,
                       op, policyVars, sessionVars, settled, contextVars, hostVars,
                       jwksFetchedAt>>

\* Time passes: half the key-set cache's TTL.
Tick ==
        /\ ticks < MaxTicks
        /\ ticks' = ticks + 1
        /\ now' = now + DEFAULT_JWKS_CACHE_TTL_MS \div 2000
        /\ UNCHANGED <<serverKeys, jwksCache, jwksCachedAt,
                       cryptoKeyCache, vcall>>
        /\ UNCHANGED <<agentVars, jwt, jwtExpiresAt, destroyed, refreshTimer,
                       heartbeatTimer, timers, nextTimer, exchanges, nExchanges,
                       op, policyVars, sessionVars, settled, contextVars, hostVars,
                       jwksFetchedAt>>

InitValidator ==
    /\ now = Epoch
    /\ serverKeys = KeySet1
    /\ ticks = 0
    /\ jwksCache = None
    /\ jwksCachedAt = 0
    /\ jwksFetchedAt = 0
    /\ cryptoKeyCache = EmptyMap
    /\ vcall = [c \in Callers |-> IdleCall]
    /\ AgentIdle
    /\ PolicyIdle
    /\ SessionIdle
    /\ ContextIdle
    /\ HostIdle

NextValidator ==
    \/ Validate
    \/ ValidatorInit
    \/ JwksReplyOk
    \/ JwksReplyFail
    \/ ImportDone
    \/ VerifyDone
    \/ CallReturn
    \/ Rotate
    \/ Tick

SpecValidator == InitValidator /\ [][NextValidator]_vars

\* --------------------------- SpudValidator with a peer that may never answer

\* The caller of the validator in SpecValidatorLive
LiveCaller == "c1"

\* validateToken(token) is called.
LiveValidate == \E token \in Tokens(LiveCaller, now) : ValidateCall(LiveCaller, token)

NextValidatorLive ==
    \/ LiveValidate
    \/ ValidatorInit
    \/ JwksReplyOk
    \/ JwksReplyFail
    \/ ImportDone
    \/ VerifyDone
    \/ CallReturn
    \/ Rotate
    \/ Tick

\* The runtime completes importKey() and verify(). The key-set endpoint owes
\* nothing: fetchJwks() calls fetch() with no abort signal and no timer, so
\* only an answer or a network error of the peer ends a pending fetch.
SpecValidatorLive ==
    /\ InitValidator
    /\ [][NextValidatorLive]_vars
    /\ WF_vars(ImportDone)
    /\ WF_vars(VerifyDone)

\* ------------------------------------------------ SpudValidator.middleware()

\* The caller whose validateToken() calls are the middleware's
MwCaller == "c1"

\* The empty string: one empty segment
EmptyToken == [Token(None, None, "", None) EXCEPT !.parts = 1]

\* req.headers["x-spud-token"]: absent, one value, or a list of values
HeaderValues(t) ==
    {[t |-> "undefined", v |-> << >>]}
    \cup {[t |-> "str", v |-> <<token>>] : token \in Tokens(MwCaller, t) \cup {EmptyToken}}
    \cup {[t |-> "arr", v |-> << >>]}
    \cup {[t |-> "arr", v |-> <<first, EmptyToken>>] : first \in GoodTokens(t) \cup {EmptyToken}}

\* middleware: the token taken from the header; None is undefined
headerToken(raw) ==
    CASE raw.t = "str" -> Some(raw.v[1])
      [] raw.t = "arr" -> IF raw.v = << >> THEN None ELSE Some(raw.v[1])
      [] OTHER -> None

\* !token
falsy(token) == token = None \/ token = Some(EmptyToken)

\* The codes of the SpudErrors validateToken() throws
SpudErrorCodes ==
    {"INVALID_JWT", "INVALID_SIGNATURE", "TOKEN_EXPIRED", "KEY_NOT_FOUND",
     "UNSUPPORTED_ALG", "JWKS_FETCH_FAILED"}

\* res.status(status).json(...)
MwResponse(status, error, code) ==
    [status |-> status, error |-> error, code |-> code]

\* middleware, the rejection handler of validateToken(token).then()
onRejected(m, err) ==
    [m EXCEPT !.pc = "done", !.failure = Some(err),
              !.responses = Append(@,
                  IF err \in SpudErrorCodes
                  THEN MwResponse(401, err, Some(err))
                  ELSE MwResponse(500, "Internal validation error", None))]

\* middleware, the fulfilment handler: req.spud = claims; next()
onFulfilled(m, claims) ==
    [m EXCEPT !.pc = "done", !.spud = Some(claims), !.nextCalls = @ + 1]

\* The claims validateToken() decodes from a token's payload
ClaimsOf(token) == [exp |-> token.exp]

\* A request reaches the middleware: it answers 401 at once when the header
\* gives no token, and calls validateToken() otherwise.
MwRequest ==
    \E raw \in HeaderValues(now) :
        LET token == headerToken(raw)
        IN  /\ mw.pc = "idle"
            /\ vcall[MwCaller].pc = "idle"
            /\ IF falsy(token)
               THEN /\ mw' = [IdleMw EXCEPT !.pc = "done", !.token = token,
                                 !.failure = Some("MISSING_TOKEN"),
                                 !.responses = <<MwResponse(401,
                                     "Missing X-Spud-Token header",
                                     Some("MISSING_TOKEN"))>>]
                    /\ UNCHANGED validatorVars
                    /\ UNCHANGED <<agentVars, clientVars, op, policyVars,
                                   sessionVars, settled, contextVars>>
               ELSE /\ mw' = [IdleMw EXCEPT !.pc = "validating", !.token = token,
                                            !.validated = TRUE]
                    /\ validateTokenStart(MwCaller, Val(token))
            /\ UNCHANGED <<wrap, stream>>

\* validateToken() has settled: the middleware's handler of the outcome runs.
MwSettle ==
    LET r == vcall[MwCaller]
    IN  /\ mw.pc = "validating"
        /\ r.pc = "done"
        /\ mw' = IF r.outcome = "ok" THEN onFulfilled(mw, ClaimsOf(r.token))
                 ELSE onRejected(mw, r.outcome)
        /\ vcall' = [vcall EXCEPT ![MwCaller] = IdleCall]
        /\ UNCHANGED <<serverKeys, ticks, jwksCache, jwksCachedAt, jwksFetchedAt,
                       cryptoKeyCache, wrap, stream>>
        /\ UNCHANGED <<agentVars, clientVars, op, policyVars, sessionVars,
                       settled, contextVars>>

\* The request is over; the next one may arrive.
MwReturn ==
    /\ mw.pc = "done"
    /\ mw' = IdleMw
    /\ UNCHANGED <<wrap, stream>>
    /\ UNCHANGED <<agentVars, clientVars, op, policyVars, validatorVars,
                   sessionVars, settled, contextVars>>

InitMiddleware ==
    /\ now = Epoch
    /\ serverKeys = KeySet1
    /\ ticks = 0
    /\ jwksCache = None
    /\ jwksCachedAt = 0
    /\ jwksFetchedAt = 0
    /\ cryptoKeyCache = EmptyMap
    /\ vcall = [c \in Callers |-> IdleCall]
    /\ AgentIdle
    /\ PolicyIdle
    /\ SessionIdle
    /\ ContextIdle
    /\ HostIdle

NextMiddleware ==
    \/ MwRequest
    \/ JwksReplyOk
    \/ JwksReplyFail
    \/ ImportDone
    \/ VerifyDone
    \/ MwSettle
    \/ MwReturn
    \/ Rotate
    \/ Tick

SpecMiddleware == InitMiddleware /\ [][NextMiddleware]_vars

\* --------------------------------------------------------- SpudServer.init

\* SpudServer.init(config) is called: it constructs the client and awaits
\* client.connect().
ServerInit ==
    /\ nExchanges = 0
    /\ SessionConnect

\* client.connect() has resolved: init() constructs the validator and awaits
\* validator.init().
ServerValidatorInit ==
    /\ \A e \in exchanges : e.origin # "connect"
    /\ heartbeatTimer # None
    /\ jwksCache = None
    /\ ValidatorInit

\* init() has ended: it returned the instance, or it rejected with the error
\* of client.connect() or of validator.init()
ServerInitFailed ==
    vcall[LiveCaller].kind = "init" /\ vcall[LiveCaller].pc = "done"
        /\ vcall[LiveCaller].outcome # "ok"

InitServer ==
    /\ now = Epoch
    /\ serverKeys = KeySet1
    /\ ticks = 0
    /\ jwksCache = None
    /\ jwksCachedAt = 0
    /\ jwksFetchedAt = 0
    /\ cryptoKeyCache = EmptyMap
    /\ vcall = [c \in Callers |-> IdleCall]
    /\ AgentIdle
    /\ PolicyIdle
    /\ SessionIdle
    /\ ContextIdle
    /\ HostIdle

NextServer ==
    \/ ServerInit
    \/ TokenExchangeReply
    \/ ServerValidatorInit
    \/ JwksReplyOk
    \/ JwksReplyFail
    \/ SessionRefreshFire
    \/ RetryFire
    \/ HeartbeatFire
    \/ HeartbeatSettle

SpecServer == InitServer /\ [][NextServer]_vars

\* ------------------------------------------------- claims: intercept()

\* The current call's decision request was answered with a decision
GovernSucceeded == op.govReply # None /\ Val(op.govReply).ok

\* The current call's decision request failed (or was never sent: request() threw)
GovernFailed == op.govReply # None /\ ~Val(op.govReply).ok

\* C1: in enforcing mode, when the decision request succeeds, proceed equals
\* the remote decision's permitted flag and the decision returned is the
\* remote response, unmodified.
C1_EnforcingFollowsDecision ==
    (mode = "enforcing" /\ GovernSucceeded) =>
        /\ op.result # None
        /\ Val(op.result).proceed = Val(op.govReply).decision.permitted
        /\ Val(op.result).decision = Val(op.govReply).decision

\* An enforcing intercept() returned a remote deny: proceed is false.
C1_Witness ==
    /\ mode = "enforcing"
    /\ op.via = "direct"
    /\ op.pc = "done"
    /\ GovernSucceeded
    /\ ~Val(op.govReply).decision.permitted
    /\ ~Val(op.result).proceed

\* C2: in permissive and dry-run modes, when the decision request succeeds,
\* proceed is true whatever the decision says, and the raw decision (a deny
\* with its reason included) is returned unaltered.
C2_PermissiveAlwaysProceeds ==
    (mode \in {"permissive", "dry-run"} /\ GovernSucceeded) =>
        /\ op.result # None
        /\ Val(op.result).proceed
        /\ Val(op.result).decision = Val(op.govReply).decision

\* A permissive intercept() returned a remote deny with its reason, and proceeds.
C2_Witness ==
    /\ mode = "permissive"
    /\ op.via = "direct"
    /\ op.pc = "done"
    /\ GovernSucceeded
    /\ Val(op.result).proceed
    /\ ~Val(op.result).decision.permitted
    /\ Val(op.result).decision.reason = Some("policy")

\* C3: when the decision request fails, the mode is applied to the synthetic
\* decision as to a remote one: permissive and dry-run proceed even when the
\* failure mode is closed, enforcing proceeds iff the synthetic decision
\* permits.
C3_ModeAppliesToSynthetic ==
    (GovernFailed /\ op.result # None) =>
        IF mode \in {"permissive", "dry-run"}
        THEN Val(op.result).proceed
        ELSE Val(op.result).proceed = Val(op.result).decision.permitted

\* C4: a failed decision request never makes intercept() raise: it returns a
\* synthetic decision, permitted exactly when failureModeFor(tool name) is
\* open, whose reason names the failure mode applied.
C4_FailureGivesSyntheticDecision ==
    GovernFailed =>
        LET open == failureModeFor(failurePolicy, Val(op.toolCall).name) = "open"
        IN  /\ op.result # None
            /\ op.via = "direct" =>
                  /\ op.pc = "done"
                  /\ Val(op.reply) = [kind |-> "result", value |-> Val(op.result)]
            /\ op.via = "proxy" /\ op.reply # None =>
                  Val(op.reply).kind # "raised" \/ Len(op.backendReqs) > 0
            /\ Val(op.result).decision.permitted = open
            /\ Val(op.result).decision.reason =
                  Some(IF open THEN FailOpenReason ELSE FailClosedReason)
            /\ Val(op.result).decision.decision_id = ""

\* intercept() on a destroyed client returned a fail-open synthetic decision.
C4_Witness ==
    /\ op.via = "direct"
    /\ op.pc = "done"
    /\ GovernFailed
    /\ Val(op.govReply).error = "CLIENT_DESTROYED"
    /\ Val(op.result).decision.permitted
    /\ Val(op.result).decision.reason = Some(FailOpenReason)

\* ------------------------------------------------- claims: proxy handler

\* The body the current handler() call received parses to a JSON object
IsEnvelope == JsonParse(op.text).ok /\ JsonParse(op.text).value.t = "obj"

\* ... whose method is tools/call
IsToolsCall == IsEnvelope /\ Get(JsonParse(op.text).value, "method") = JStr("tools/call")

\* C6: for a tools/call message that intercept() denies, the handler returns a
\* JSON-RPC error reply with the original message's id and HTTP status 200,
\* and sends nothing to the backend.
C6_DeniedCallGetsErrorReply ==
    (op.via = "proxy" /\ op.result # None /\ ~Val(op.result).proceed) =>
        /\ op.pc = "done"
        /\ Len(op.backendReqs) = 0
        /\ Val(op.reply).kind = "response"
        /\ Val(op.reply).response.status = 200
        /\ Get(Val(op.reply).response.body, "jsonrpc") = JStr("2.0")
        /\ Get(Val(op.reply).response.body, "error").t = "obj"
        /\ Get(Val(op.reply).response.body, "id") = Get(JsonParse(op.text).value, "id")

\* The handler denied a tools/call whose id is the string "x".
C6_Witness ==
    /\ op.via = "proxy"
    /\ op.text = BodyCallDel
    /\ op.pc = "done"
    /\ GovernSucceeded
    /\ ~Val(op.result).proceed
    /\ Get(Val(op.reply).response.body, "id") = JStr("x")

\* C7: for an envelope whose method is not tools/call, the handler sends no
\* decision request and forwards the body verbatim to the backend exactly once.
C7_OtherMethodsForwardedUngoverned ==
    (op.via = "proxy" /\ IsEnvelope /\ ~IsToolsCall) =>
        /\ op.pc \in {"forward", "done"}
        /\ op.govReqs = << >>
        /\ op.result = None
        /\ Len(op.backendReqs) = 1
        /\ op.backendReqs[1].body = op.text

\* The handler forwarded a prompts/get message and returned the upstream's reply.
C7_Witness ==
    /\ op.via = "proxy"
    /\ op.text = BodyPromptGet
    /\ op.pc = "done"
    /\ Val(op.reply).kind = "response"
    /\ Len(op.backendReqs) = 1

\* C8: a tools/call message reaches the backend only after intercept()
\* returned proceed = true for it, and the body forwarded is the body
\* received, byte for byte.
C8_CallForwardedOnlyAfterProceed ==
    (op.via = "proxy" /\ IsToolsCall /\ Len(op.backendReqs) > 0) =>
        /\ op.result # None
        /\ Val(op.result).proceed
        /\ Len(op.backendReqs) = 1
        /\ op.backendReqs[1].body = op.text

\* The handler forwarded a permitted tools/call whose text is not in
\* canonical form.
C8_Witness ==
    /\ op.via = "proxy"
    /\ op.text = BodyCallDel
    /\ op.pc = "done"
    /\ Val(op.result).proceed
    /\ Len(op.backendReqs) = 1
    /\ op.backendReqs[1].body # JsonStringifyParsed(op.text)

\* ------------------------------------------------ claims: failure policy

\* The elements of an optional list
ListedIn(optList) ==
    IF optList = None THEN {} ELSE {Val(optList)[i] : i \in 1..Len(Val(optList))}

\* The reference: a pattern ending in "*" matches the names that are the text
\* before the "*" followed by anything; any other pattern matches itself only.
RefMatches(pattern, name) ==
    IF Len(pattern) > 0 /\ pattern[Len(pattern)] = "*"
    THEN \E k \in 0..Len(name) :
            /\ k = Len(pattern) - 1
            /\ \A i \in 1..k : name[i] = pattern[i]
    ELSE name = pattern

RefFailureMode(config, name) ==
    LET fp == IF config.failurePolicy = None
              THEN [failOpen |-> None, failClosed |-> None, default |-> None]
              ELSE Val(config.failurePolicy)
    IN  IF \E p \in ListedIn(fp.failOpen) : RefMatches(p, name) THEN "open"
        ELSE IF \E p \in ListedIn(fp.failClosed) : RefMatches(p, name) THEN "closed"
        ELSE IF fp.default = None THEN "closed"
        ELSE Val(fp.default)

\* What the documented examples must resolve to
ExampleExpectations ==
    { [config |-> GetStarOpenConfig, name |-> GetUser, mode |-> "open"],
      [config |-> GetStarOpenConfig, name |-> GetOrders, mode |-> "open"],
      [config |-> GetStarOpenConfig, name |-> GetuserNoSep, mode |-> "closed"],
      [config |-> GetStarOpenConfig, name |-> ListGet, mode |-> "closed"],
      [config |-> SendBothConfig, name |-> SendEmail, mode |-> "open"] }

\* C5: failureModeFor(name) equals the reference for every name and policy:
\* open if a failOpen pattern matches, else closed if a failClosed pattern
\* matches, else the configured default (closed when none); a trailing "*"
\* is a prefix match, any other pattern an exact match.  Hence a name in both
\* lists is open, and "get_*" matches "get_user" and "get_orders" but not
\* "getuser" or "list_get".
C5_FailureModeMatchesReference ==
    polResult # None =>
        /\ Val(polResult) = RefFailureMode(polConfig, polName)
        /\ \A e \in ExampleExpectations :
              (polConfig = e.config /\ polName = e.name) => Val(polResult) = e.mode

\* failureModeFor("send_email") was resolved with "send_*" in both lists.
C5_Witness ==
    /\ polConfig = SendBothConfig
    /\ polName = SendEmail
    /\ polResult = Some("open")

\* ---------------------------------------------------------------------------
\* SpudValidator: unknown key ids and expiry

\* How many forced refetches a call has issued
RECURSIVE CountForced(_)
CountForced(log) ==
    IF log = << >> THEN 0
    ELSE (IF Head(log) = "forced" THEN 1 ELSE 0) + CountForced(Tail(log))

\* The token is unexpired at the second t: no exp claim, or one after t
Unexpired(token, t) == token.exp = None \/ Val(token.exp) > t

\* C9: a validateToken() call whose find() on the key set misses the token's
\* key id issues exactly one forced refetch, and no fetch after it; a call
\* that never misses issues none.  When the refetched set lists the key id the
\* call does not fail with KEY_NOT_FOUND, and it succeeds for a validly signed,
\* unexpired token of a supported algorithm; when the refetched set does not
\* list it the call fails with KEY_NOT_FOUND.  KEY_NOT_FOUND is raised only
\* after such a refetch.
C9_UnknownKidRefetchesOnce ==
    \A c \in Callers :
        LET r == vcall[c]
            kid == Val(r.token.kid)
            set == Val(r.refetched)
        IN  r.kind = "validate" =>
              /\ CountForced(r.fetchLog) = IF r.missed THEN 1 ELSE 0
              /\ r.missed => r.fetchLog[Len(r.fetchLog)] = "forced"
              /\ r.refetched # None => r.missed
              /\ (r.pc = "done" /\ r.refetched # None) =>
                    IF kid \in DOMAIN set
                    THEN /\ r.outcome # "KEY_NOT_FOUND"
                         /\ (/\ algSupported(Val(r.token.alg))
                             /\ r.token.signer = set[kid]) =>
                                /\ r.verified
                                /\ Unexpired(r.token, r.checkedAt) => r.outcome = "ok"
                    ELSE r.outcome = "KEY_NOT_FOUND"
              /\ (r.pc = "done" /\ r.outcome = "KEY_NOT_FOUND") =>
                    /\ r.refetched # None
                    /\ kid \notin DOMAIN set

\* A token of k2 was presented while the cached key set listed only k1; the
\* one forced refetch surfaced k2 and the call returned the claims.
C9_Witness ==
    /\ vcall["c1"].pc = "done"
    /\ vcall["c1"].token.kid = Some("k2")
    /\ vcall["c1"].fetchLog = <<"forced">>
    /\ vcall["c1"].refetched = Some(KeySet12)
    /\ vcall["c1"].outcome = "ok"

\* C10: a validateToken() call whose signature verified fails with
\* TOKEN_EXPIRED when the exp claim is present and not after the current
\* second (equal included), and returns the claims when exp is absent or
\* strictly after the current second.
C10_ExpiredUnlessStrictlyFuture ==
    \A c \in Callers :
        LET r == vcall[c]
        IN  (r.pc = "done" /\ r.verified) =>
                r.outcome = IF Unexpired(r.token, r.checkedAt)
                            THEN "ok" ELSE "TOKEN_EXPIRED"

\* C11: a validateToken() call on a token whose header algorithm is neither
\* RS256 nor ES256 issues no key-set fetch, timed or forced, and when it ends
\* it has failed with UNSUPPORTED_ALG, whether or not the key id is known.
C11_UnsupportedAlgBeforeLookup ==
    \A c \in Callers :
        LET r == vcall[c]
        IN  (/\ r.kind = "validate"
             /\ r.token.parts = 3
             /\ r.token.kid # None
             /\ r.token.alg # None
             /\ ~algSupported(Val(r.token.alg))) =>
                /\ r.fetchLog = << >>
                /\ ~r.missed
                /\ r.pc = "done" => r.outcome = "UNSUPPORTED_ALG"

\* ------------------------------------------------- claims: SpudClient

\* The reply is outside what fetchToken() may accept at the second t: not a
\* success, or an expiry not after t, or more than the maximum lifetime after t
BadReply(res, t) ==
    \/ ~res.ok
    \/ res.expires_at <= t
    \/ res.expires_at > t + 604800

\* C12: a credential is installed only from a successful reply whose expiry is
\* strictly after the fetch time and at most 7 days after it, so every
\* credential held satisfies both bounds.  A connect() whose exchange is
\* answered with a non-success status fails with AUTH_FAILED, and one answered
\* with an expiry outside the bounds fails too; either way the credential is
\* left as it was (a client that held none still holds none, and isConnected
\* stays false) and no timer is started.
C12_CredentialWithinBounds ==
    [][/\ jwt' # None =>
            /\ jwtExpiresAt' > now'
            /\ jwtExpiresAt' <= now' + 604800
       /\ (settled' # settled /\ settled' # None) =>
            LET s == Val(settled')
            IN  /\ (~s.res.aborted /\ ~s.res.ok) => s.outcome = "AUTH_FAILED"
                /\ BadReply(s.res, s.at) =>
                      /\ s.outcome # "ok"
                      /\ UNCHANGED <<jwt, jwtExpiresAt, heartbeatTimer>>
                      /\ isConnected' = isConnected
                      /\ jwt = None => ~isConnected'
                      /\ s.origin = "connect" =>
                            UNCHANGED <<refreshTimer, timers>>
                /\ ~BadReply(s.res, s.at) =>
                      /\ s.outcome = "ok"
                      /\ jwt' = Some(s.res.token)
                      /\ jwtExpiresAt' = s.res.expires_at
      ]_vars

\* The first connect() was answered with an expiry one second beyond the
\* maximum lifetime: it failed, and the client holds no credential and no timer.
C12_Witness ==
    /\ settled # None
    /\ Val(settled).origin = "connect"
    /\ Val(settled).res.ok
    /\ Val(settled).res.expires_at = Val(settled).at + 604800 + 1
    /\ Val(settled).outcome = "INVALID_TOKEN"
    /\ ~destroyed
    /\ jwt = None
    /\ ~isConnected
    /\ timers = {}

\* C13: a request() call made on a destroyed client (connected before or
\* never) fails with CLIENT_DESTROYED, and one made on a live client holding
\* no credential fails with NOT_CONNECTED, in both cases without sending
\* anything.  Any other call sends exactly one request, whose bearer token is
\* the credential held when request() was called; a response that is not a
\* success makes it fail with API_ERROR carrying that response's status.
C13_RequestErrors ==
    LET guardError(code) ==
            /\ req.result = Some([kind |-> "SpudError", code |-> code,
                                  status |-> None])
            /\ req.sent = << >>
            /\ req.response = None
    IN  req.pc # "idle" =>
            IF req.wasDestroyed THEN guardError("CLIENT_DESTROYED")
            ELSE IF req.held = None THEN guardError("NOT_CONNECTED")
            ELSE /\ req.sent = <<[bearer |-> Val(req.held)]>>
                 /\ (req.response # None /\ ~resOk(Val(req.response))) =>
                        req.result = Some([kind |-> "SpudError",
                                           code |-> "API_ERROR",
                                           status |-> req.response])
                 /\ (req.response # None /\ resOk(Val(req.response))) =>
                        /\ req.result # None
                        /\ Val(req.result).kind = "value"

\* A request() made with a credential that was since replaced was answered
\* with status 500, and failed with API_ERROR carrying 500.
C13_Witness ==
    /\ req.pc = "done"
    /\ req.response = Some(500)
    /\ Val(req.result).code = "API_ERROR"
    /\ Val(req.result).status = Some(500)
    /\ jwt # None
    /\ req.held # jwt
    /\ req.sent[1].bearer = Val(req.held)

\* The state destroy() leaves behind
TornDown ==
    /\ destroyed
    /\ ~isConnected
    /\ jwt = None
    /\ jwtExpiresAt = 0
    /\ refreshTimer = None
    /\ heartbeatTimer = None

\* C14: destroy() can be called in every state; when it returns the client is
\* destroyed, isConnected is false, the credential is cleared and the timers
\* whose handles the client held are cancelled; and a destroy() that follows
\* a destroy() changes nothing.
C14_DestroySafeAndIdempotent ==
    /\ [](ENABLED Destroy)
    /\ [][Destroy =>
            /\ TornDown'
            /\ \A t \in timers :
                  Some(t.id) \in {refreshTimer, heartbeatTimer} => t \notin timers'
            /\ timers' \subseteq timers
            /\ TornDown => UNCHANGED vars
         ]_vars

\* destroy() was called while a connect() was in flight, on a client that had
\* connected before.
C14_Witness ==
    /\ TornDown
    /\ \E e \in exchanges : e.origin = "connect"
    /\ settled # None
    /\ Val(settled).outcome = "ok"
    /\ timers = {}

\* C15: once the client is destroyed it starts no heartbeat request and no
\* token exchange of its own (from a refresh timer), whatever was called
\* before destroy() and whatever was in flight.  (Exchanges started by a
\* connect() called after destroy() are C16's.)
C15_NoRequestsAfterDestroy ==
    [][destroyed =>
            /\ heartbeats' \subseteq heartbeats
            /\ \A e \in exchanges' \ exchanges : e.origin = "connect"
      ]_vars

\* C16: every operation called on a destroyed client fails with
\* CLIENT_DESTROYED: request() does, and connect() does without starting a
\* token exchange (and so installs no credential and arms no timer).
C16_OperationsAfterDestroyFail ==
    /\ [](req.pc = "done" /\ req.wasDestroyed =>
              Val(req.result).code = "CLIENT_DESTROYED")
    /\ [][destroyed => \A e \in exchanges' \ exchanges : e.origin # "connect"]_vars

\* A refresh attempt is scheduled (a refresh timer, or the retry timer that
\* re-arms it) or in flight
RefreshPending ==
    \/ \E t \in timers : t.kind \in {"refresh", "retry"}
    \/ \E e \in exchanges : e.origin = "refresh"

\* C17: while the client is connected and not destroyed a refresh attempt is
\* always scheduled or in flight; and every failed refresh on a live client,
\* the first as the ones after it, arms a retry in 30 s, which the client
\* holds as its refresh timer.
C17_RefreshNeverStops ==
    /\ [](isConnected => RefreshPending)
    /\ [][(/\ settled' # settled
           /\ Val(settled').origin = "refresh"
           /\ Val(settled').outcome # "ok") =>
              \E t \in timers' \ timers :
                  /\ t.kind = "retry"
                  /\ t.delay = 30000
                  /\ refreshTimer' = Some(t.id)
         ]_vars

\* Two refreshes in a row have failed on a connected client, and the retry is
\* armed.
C17_Witness ==
    /\ isConnected
    /\ nExchanges = 3
    /\ exchanges = {}
    /\ Val(settled).id = 3
    /\ Val(settled).origin = "refresh"
    /\ Val(settled).outcome # "ok"
    /\ \E t \in timers : t.kind = "retry" /\ refreshTimer = Some(t.id)
    /\ Cardinality({t \in timers : t.kind = "heartbeat"}) = 1

\* C18: after each successful token exchange on a live client the refresh
\* timer is armed with delay max(timeUntilExpiry - refreshMargin, 0), computed
\* from the credential just installed: the margin (5 min) before the expiry
\* when that much remains, at once when less remains, never after the expiry.
C18_RefreshDelay ==
    [][(/\ settled' # settled
        /\ Val(settled').outcome = "ok"
        /\ ~destroyed) =>
           LET s == Val(settled')
               untilExpiry == (s.res.expires_at - s.at) * 1000
           IN  \E t \in timers' \ timers :
                  /\ t.kind = "refresh"
                  /\ refreshTimer' = Some(t.id)
                  /\ jwtExpiresAt' = s.res.expires_at
                  /\ t.delay = IF untilExpiry >= 300000
                               THEN untilExpiry - 300000 ELSE 0
                  /\ t.delay >= 0
                  /\ t.delay <= untilExpiry
      ]_vars

\* A refresh installed a credential with one second to live: the next
\* refresh is due at once.
C18_Witness ==
    /\ settled # None
    /\ Val(settled).origin = "refresh"
    /\ Val(settled).outcome = "ok"
    /\ Val(settled).res.expires_at = Val(settled).at + 1
    /\ jwt = Some(Val(settled).res.token)
    /\ \E t \in timers : /\ t.kind = "refresh"
                         /\ refreshTimer = Some(t.id)
                         /\ t.delay = 0

\* C19: the credential changes only as a whole: a step that changes the token
\* or the expiry either clears both, or installs the token and the expiry of
\* the one reply settled in that step.  What a request or a heartbeat carries
\* is a token that was held, read in one step.
C19_CredentialReplacedWhole ==
    /\ [](jwt = None => jwtExpiresAt = 0)
    /\ [][<<jwt, jwtExpiresAt>>' # <<jwt, jwtExpiresAt>> =>
            \/ jwt' = None /\ jwtExpiresAt' = 0
            \/ /\ settled' # settled
               /\ Val(settled').res.ok
               /\ jwt' = Some(Val(settled').res.token)
               /\ jwtExpiresAt' = Val(settled').res.expires_at
         ]_vars
    /\ [][/\ \A h \in heartbeats' \ heartbeats : Some(h.bearer) = jwt
          /\ (req' # req /\ req'.pc = "sent") => req'.sent[1].bearer = Val(jwt)
         ]_vars

\* A refresh replaced the credential while a request and a heartbeat carrying
\* the previous one were in flight.
C19_Witness ==
    /\ req.pc = "sent"
    /\ jwt # None
    /\ req.held # jwt
    /\ \E h \in heartbeats : Some(h.bearer) = req.held
    /\ Val(settled).origin = "refresh"
    /\ jwt = Some(Val(settled).res.token)
    /\ jwtExpiresAt = Val(settled).res.expires_at

\* ------------------------------------------------- claims: buildContext()

\* The hooks, in registration order, that provide key k
Providers(hooks, k) == {i \in 1..Len(hooks) : k \in DOMAIN hooks[i]}

\* The largest member of a non-empty set of numbers
Latest(S) == CHOOSE i \in S : \A j \in S : j <= i

\* C20: the context buildContext() returns has the keys of all the hooks'
\* results, each with the value of the last-registered hook that provides it,
\* in whatever order the hooks settled; hooks {a:1} then {a:2,b:2} merge to
\* {a:2,b:2}.
C20_MergeByRegistrationOrder ==
    build.pc = "done" =>
        LET hooks == build.hooks
            merged == Val(build.merged)
        IN  /\ build.merged # None
            /\ DOMAIN merged = UNION {DOMAIN hooks[i] : i \in 1..Len(hooks)}
            /\ \A k \in DOMAIN merged :
                  merged[k] = hooks[Latest(Providers(hooks, k))][k]
            /\ hooks = <<OutA1, OutA2B2>> => merged = OutA2B2

\* Hooks {a:1} and {a:2,b:2} were registered in that order, the second settled
\* first, and the merged context is {a:2,b:2}.
C20_Witness ==
    /\ build.pc = "done"
    /\ build.hooks = <<OutA1, OutA2B2>>
    /\ build.order = <<2, 1>>
    /\ build.merged = Some(OutA2B2)

\* ------------------------------------- claims: intercept() with hooks

\* Every hook of the current buildContext() has settled
AllSettled == \A i \in 1..Len(build.hooks) : ~Pending(i)

\* C21: within one intercept() every registered hook has been started as soon
\* as intercept() waits, and intercept() neither issues the decision request
\* nor completes before every hook has settled.
C21_WaitsForAllProviders ==
    /\ op.pc # "idle" => build.started = 1..Len(build.hooks)
    /\ op.pc \in {"govern", "done"} => AllSettled

\* ------------------------------------------------ claims: key-set caching

\* The cached key set was fetched less than the TTL ago
WithinTtl == jwksCache # None /\ nowMs - jwksFetchedAt < DEFAULT_JWKS_CACHE_TTL_MS

\* Caller c starts a validateToken() in this step, and it issues a key-set fetch
StartsWithFetch(c) ==
    /\ vcall[c].pc = "idle"
    /\ vcall'[c].kind = "validate"
    /\ vcall'[c].fetchLog # << >>

\* C22: while the cached key set's TTL has not elapsed, a validateToken() for
\* a key id the cached key set lists issues no key-set fetch; every successful
\* refetch replaces the cached key set by the one fetched, whole, and empties
\* the parsed-key cache.
C22_CachedWithinTtl ==
    /\ [][\A c \in Callers :
             StartsWithFetch(c) /\ WithinTtl =>
                 Val(vcall'[c].token.kid) \notin DOMAIN Val(jwksCache)]_vars
    /\ [][JwksReplyOk =>
             /\ jwksCache' = Some(serverKeys)
             /\ cryptoKeyCache' = EmptyMap]_vars

\* ------------------------------------------------------ claims: middleware

\* The request went on: claims attached, next() called once, nothing sent
MwContinued ==
    /\ mw.nextCalls = 1
    /\ mw.spud # None
    /\ mw.responses = << >>
    /\ mw.validated /\ mw.failure = None

\* The request was answered with the failure's machine code, next() not called
MwShortCircuited ==
    /\ mw.nextCalls = 0
    /\ mw.spud = None
    /\ Len(mw.responses) = 1
    /\ mw.failure # None
    /\ mw.responses[1].code = mw.failure
    /\ mw.failure = Some("MISSING_TOKEN") =>
          ~mw.validated /\ mw.responses[1].status = 401

\* C23: every request through the middleware ends in exactly one of two ways:
\* claims attached and next() called once after validateToken() succeeded, or
\* one error response carrying the failure's machine code and no next(); a
\* missing token gives 401 MISSING_TOKEN without validation.
C23_ContinueOrShortCircuit ==
    /\ mw.nextCalls <= 1
    /\ mw.pc = "done" => (MwContinued /\ ~MwShortCircuited)
                             \/ (MwShortCircuited /\ ~MwContinued)

\* --------------------------------------- claims: proxy handler, forwarding

\* C24: a body that does not parse to a JSON object (text that is not JSON,
\* null, a scalar, an array) is forwarded verbatim to the backend: no decision
\* request is issued, and the handler does not raise on it.
C24_NonEnvelopeForwardedVerbatim ==
    (op.via = "proxy" /\ ~IsEnvelope) =>
        /\ op.pc \in {"forward", "done"}
        /\ op.govReqs = << >>
        /\ op.result = None
        /\ Len(op.backendReqs) = 1
        /\ op.backendReqs[1].body = op.text
        /\ op.reply # Some([kind |-> "raised", error |-> "TypeError"])

\* C25: the handler sends at most one request to the backend per inbound
\* request; when that request fails in transport, the handler ends by raising
\* that same failure: no second request, no response in its place.
C25_BackendFailurePropagates ==
    op.via = "proxy" =>
        /\ Len(op.backendReqs) <= 1
        /\ \A f \in {"network", "timeout"} :
              op.backendReply = Some([ok |-> FALSE, error |-> f]) =>
                  /\ op.pc = "done"
                  /\ op.reply = Some([kind |-> "raised", error |-> f])
                  /\ Len(op.backendReqs) = 1

\* A permitted tools/call was forwarded, the backend request timed out, and
\* the handler raised the timeout.
C25_Witness ==
    /\ op.via = "proxy"
    /\ op.text = BodyCallGet
    /\ op.result # None
    /\ Len(op.backendReqs) = 1
    /\ op.backendReply = Some([ok |-> FALSE, error |-> "timeout"])
    /\ op.reply = Some([kind |-> "raised", error |-> "timeout"])

\* ------------------------------------------------ claims: outbound timeouts

\* C26: an outbound call is ended by the timeout when the peer never answers,
\* so no operation waits for ever: a validateToken() or init() waiting for
\* the key-set fetch eventually stops waiting.
C26_KeySetFetchTimesOut ==
    \A c \in Callers : (vcall[c].pc = "fetch") ~> (vcall[c].pc # "fetch")

\* ---------------------------------------------------- claims: heartbeat

\* The heartbeat intervals the runtime holds armed
HeartbeatIntervals == {t \in timers : t.kind = "heartbeat"}

\* C27: while the client is connected and not destroyed, exactly one
\* heartbeat interval is armed, and each time it comes round one heartbeat
\* request carrying the current token is sent; a heartbeat that is answered or
\* fails changes nothing of the client and of a request() in progress.
C27_OneHeartbeatPerInterval ==
    /\ [](isConnected => Cardinality(HeartbeatIntervals) = 1)
    /\ [][HeartbeatFire /\ isConnected =>
              heartbeats' = heartbeats \cup {[bearer |-> Val(jwt)]}]_vars
    /\ [][HeartbeatSettle => UNCHANGED <<clientVars, req>>]_vars

\* ------------------------------------------------------ claims: adapters

\* The i-th tool call of the adapter's current use was let through
LetThrough(i) == \E j \in 1..Len(wrap.passed) : wrap.passed[j] = i

\* C28: an adapter lets a tool call through only after intercept() returned
\* proceed = true for it, and when intercept() returned proceed = false the
\* adapter ends by raising a SpudError with code TOOL_DENIED whose message is
\* the decision's reason, or the default naming the tool when there is none.
C28_AdaptersSurfaceDenial ==
    /\ \A i \in 1..Len(wrap.calls) :
          LetThrough(i) => i <= Len(wrap.verdicts) /\ wrap.verdicts[i].proceed
    /\ wrap.pc = "done" =>
          \A i \in 1..Len(wrap.verdicts) :
              LET reason == wrap.verdicts[i].decision.reason
              IN  ~wrap.verdicts[i].proceed =>
                      /\ wrap.thrown # None
                      /\ Val(wrap.thrown).code = "TOOL_DENIED"
                      /\ Val(wrap.thrown).message =
                            IF reason # None THEN <<Val(reason)>>
                            ELSE DeniedByPolicy(wrap.calls[i].name)

\* A tool-call-delta or tool-call part that carries a call id
OfCall(part) ==
    part.type \in {"tool-call-delta", "tool-call"} /\ part.toolCallId # None

\* The deltas of call id among the first n parts of input, in their order
DeltasBefore(input, n, id) ==
    SelectSeq(SubSeq(input, 1, n),
              LAMBDA part : part.type = "tool-call-delta"
                            /\ part.toolCallId = Some(id))

\* What the first n parts of input owe downstream, given the permitted ids
RECURSIVE Downstream(_, _, _)
Downstream(input, n, permitted) ==
    IF n = 0 THEN << >>
    ELSE LET part == input[n]
             rest == Downstream(input, n - 1, permitted)
         IN  IF ~OfCall(part) THEN Append(rest, part)
             ELSE IF part.type = "tool-call"
                     /\ Val(part.toolCallId) \in permitted
             THEN (rest \o DeltasBefore(input, n - 1, Val(part.toolCallId)))
                  \o <<part>>
             ELSE rest

\* C29: wrapStream emits a tool-call-delta or tool-call part of a call id only
\* once intercept() on the complete tool-call part has returned proceed = true;
\* a permitted call's deltas come out in their original order followed by the
\* tool-call part, a denied call's parts never come out, and every other part
\* passes through unchanged and in order.
C29_StreamWithholdsUntilPermitted ==
    /\ [](stream.pc # "idle" =>
            /\ stream.out = Downstream(stream.input, stream.pos - 1,
                                       stream.permitted)
            /\ \A k \in 1..Len(stream.out) :
                   OfCall(stream.out[k]) =>
                       /\ Val(stream.out[k].toolCallId) \in stream.permitted
                       /\ Val(stream.out[k].toolCallId) \notin stream.denied)
    /\ [][StreamResume =>
            LET id == Val(stream.input[stream.pos].toolCallId)
            IN  /\ stream'.permitted =
                       IF Val(op.result).proceed
                       THEN stream.permitted \cup {id} ELSE stream.permitted
                /\ stream'.denied =
                       IF Val(op.result).proceed
                       THEN stream.denied ELSE stream.denied \cup {id}]_vars
    /\ [][stream'.permitted # stream.permitted =>
            StreamResume \/ StreamOpen \/ StreamReturn]_vars

\* A stream has ended in which the deltas of a permitted call and of a denied
\* call were interleaved: the permitted call's parts came out, the other's not.
C29_Witness ==
    /\ stream.pc = "done"
    /\ stream.input = <<DeltaPart(Some("1"), "x"), DeltaPart(Some("2"), "x"),
                        CallPart("2", Del), CallPart("1", GetU)>>
    /\ stream.out = <<DeltaPart(Some("1"), "x"), CallPart("1", GetU)>>
    /\ stream.denied = {"2"}

\* The key some published key set lists for kid is key
ListedFor(kid, key) ==
    \E ks \in KeySets : kid \in DOMAIN ks /\ ks[kid] = key

\* validateToken() of r got as far as verify() and the signature did not verify
BadSignature(r) ==
    r.key # None /\ r.token.signer # Val(r.key)

\* C30: validateToken() returns claims only for a token whose signature
\* verified under the key the key set lists for the header's kid, and a token
\* whose signature does not verify is rejected as INVALID_SIGNATURE whatever
\* its expiry, never as TOKEN_EXPIRED.
C30_SignatureBeforeExpiry ==
    \A c \in Callers :
        LET r == vcall[c]
        IN  (r.pc = "done" /\ r.kind = "validate") =>
                /\ r.outcome = "ok" =>
                       /\ r.verified
                       /\ r.key # None
                       /\ r.token.signer = Val(r.key)
                       /\ ListedFor(Val(r.token.kid), Val(r.key))
                /\ BadSignature(r) => r.outcome = "INVALID_SIGNATURE"
                /\ r.outcome = "TOKEN_EXPIRED" => r.verified /\ ~BadSignature(r)

\* A token with a bad signature that had expired when verify() resolved was
\* rejected for its signature.
C30_Witness ==
    \E c \in Callers :
        /\ vcall[c].pc = "done"
        /\ BadSignature(vcall[c])
        /\ checkExpiry(vcall[c].token.exp, vcall[c].checkedAt) = "TOKEN_EXPIRED"
        /\ vcall[c].outcome = "INVALID_SIGNATURE"

\* C31: a token exchange that was in flight when destroy() was called installs
\* no credential when it completes: on the destroyed client authToken stays
\* null, and so the proxy attaches no token.
C31_NoCredentialAfterDestroy ==
    [][\A e \in exchanges \ exchanges' :
           (e.live /\ destroyed) => jwt' = None /\ authToken' = None]_vars

\* The session's pending refresh tasks: refresh timers and the retry timers
\* that re-arm them
RefreshTimers == {t \in timers : t.kind \in {"refresh", "retry"}}

\* C32: at every moment the session has at most one pending refresh timer and
\* at most one heartbeat interval, whatever connect() calls and refresh
\* failures came before, and every timer running is one whose handle the
\* session holds, and so one that destroy() cancels.
C32_OneTimerOfEachKind ==
    /\ Cardinality(RefreshTimers) <= 1
    /\ Cardinality(HeartbeatIntervals) <= 1
    /\ \A t \in timers : Some(t.id) \in {refreshTimer, heartbeatTimer}

\* C33: a token exchange of a refresh that fails (it timed out, the response
\* was not a success, or the expiry was outside the accepted bounds) leaves
\* the credential as it was, token and expiry both; a request made afterwards
\* carries the credential held, the previous one.
C33_FailedRefreshKeepsCredential ==
    /\ [][(/\ settled' # settled
           /\ Val(settled').origin = "refresh"
           /\ \/ Val(settled').res.aborted
              \/ BadReply(Val(settled').res, Val(settled').at)) =>
              /\ Val(settled').outcome # "ok"
              /\ UNCHANGED <<jwt, jwtExpiresAt>>
              /\ authToken' = authToken
         ]_vars
    /\ [][(req' # req /\ req'.pc = "sent") => Some(req'.sent[1].bearer) = jwt]_vars

\* After a refresh answered with an expiry beyond the maximum lifetime, a
\* request went out with the credential of the connect().
C33_Witness ==
    /\ settled # None
    /\ Val(settled).id = 2
    /\ Val(settled).origin = "refresh"
    /\ Val(settled).res.ok
    /\ Val(settled).res.expires_at = Val(settled).at + 604800 + 1
    /\ jwt = Some(1)
    /\ jwtExpiresAt = Epoch + 1
    /\ req.pc = "sent"
    /\ req.sent[1].bearer = 1
    /\ exchanges = {}

\* C34: every entry of the parsed-key cache belongs to a key id that the
\* currently cached key set lists, with that key set's key material: a key
\* imported from a key set that a refetch has since replaced is not left in
\* the parsed-key cache.
C34_ParsedKeysFromCachedKeySet ==
    \A kid \in DOMAIN cryptoKeyCache :
        /\ jwksCache # None
        /\ kid \in DOMAIN Val(jwksCache)
        /\ cryptoKeyCache[kid] = Val(jwksCache)[kid]

FetchFails(c) ==
    /\ vcall[c].pc = "fetch"
    /\ vcall'[c].pc = "done"
    /\ vcall'[c].outcome \in {"JWKS_FETCH_FAILED", "TypeError"}

\* No caller other than c has a forced refetch in flight
NoOtherForced(c) ==
    \A d \in Callers \ {c} :
        ~(vcall[d].pc = "fetch" /\ vcall[d].fetchKind = "forced")

\* C36: a key-set fetch that fails, forced or TTL-driven, leaves the cached
\* key set as it was and its timestamp at the time that key set was fetched;
\* so with no fetch in flight and the TTL not elapsed, a validateToken() for a
\* key id the cached key set lists issues no fetch.
C36_FailedRefetchKeepsCache ==
    /\ [][\A c \in Callers :
             FetchFails(c) /\ NoOtherForced(c) =>
                 /\ jwksCache' = jwksCache
                 /\ jwksCache # None => jwksCachedAt' = jwksFetchedAt]_vars
    /\ [][\A c \in Callers :
             (/\ StartsWithFetch(c)
              /\ WithinTtl
              /\ \A d \in Callers : vcall[d].pc # "fetch") =>
                 Val(vcall'[c].token.kid) \notin DOMAIN Val(jwksCache)]_vars

\* C37: every request the proxy sends to the backend carries in X-Spud-Token
\* the session's current credential and nothing else: with no credential held
\* the header is absent, whatever the inbound caller put in it.
C37_OnlyOwnTokenForwarded ==
    [][Len(op'.backendReqs) > Len(op.backendReqs) =>
          op'.backendReqs[Len(op'.backendReqs)].headers.spudToken = authToken]_vars

\* The keys of the decision request's context that intercept() sets itself
CallKeys == {"tool_name", "tool_arguments"}

\* C38: in the context of every decision request tool_name and tool_arguments
\* are the intercepted call's name and arguments and action is "tool:"
\* followed by the name, also when a provider returned keys of those names;
\* the other keys are the merged provider context's.
C38_CallIdentityNotOverwritten ==
    \A i \in 1..Len(op.govReqs) :
        LET request == op.govReqs[i]
            tc == Val(op.toolCall)
            merged == OrElse(build.merged, EmptyObject)
        IN  /\ request.action = <<"tool:", tc.name>>
            /\ request.context["tool_name"] = tc.name
            /\ request.context["tool_arguments"] = tc.arguments
            /\ DOMAIN request.context = DOMAIN merged \cup CallKeys
            /\ \A k \in DOMAIN merged \ CallKeys :
                   request.context[k] = merged[k]

\* A decision request was sent for a del call whose providers returned
\* tool_name get_u and a key of their own.
C38_Witness ==
    /\ Len(op.govReqs) = 1
    /\ Val(op.toolCall).name = Del
    /\ build.merged # None
    /\ DOMAIN Val(build.merged) = {"a", "tool_name", "tool_arguments"}
    /\ Val(build.merged)["tool_name"] = GetU
    /\ op.govReqs[1].context["tool_name"] = Del
    /\ op.govReqs[1].context["a"] = 1

\* C39: if a context provider rejects, intercept() rejects with that failure:
\* no decision request is sent for the call, the failure policy is not
\* applied, and no proceed verdict is produced.
C39_ProviderFailureRejectsIntercept ==
    /\ (op.pc = "done" /\ op.via = "direct" /\ build.pc = "rejected") =>
           /\ op.reply = Some([kind |-> "raised", error |-> "HookError"])
           /\ op.govReqs = << >>
           /\ op.govReply = None
           /\ op.result = None
    /\ (op.pc # "idle" /\ build.pc = "rejected") => op.pc \in {"ctx", "done"}

\* A provider rejected while another had fulfilled, on a connected client:
\* intercept() raised and sent nothing.
C39_Witness ==
    /\ op.pc = "done"
    /\ build.pc = "rejected"
    /\ isConnected
    /\ Len(build.hooks) = 2
    /\ Len(build.order) = 2
    /\ op.reply = Some([kind |-> "raised", error |-> "HookError"])
    /\ op.govReqs = << >>

\* C40: when SpudServer.init() fails after its token exchange succeeded (the
\* eager key-set fetch failed), the session it created has been torn down:
\* the client is destroyed, and no refresh timer and no heartbeat interval of
\* it is running.
C40_FailedInitTearsDownSession ==
    ServerInitFailed =>
        /\ destroyed
        /\ timers = {}
        /\ refreshTimer = None
        /\ heartbeatTimer = None

====
